---- MODULE Spec2Model ----
(***************************************************************************)
(* A model of the WyzeSense dongle protocol engine (wyzesense.py) and of   *)
(* the gateway start-up that constructs it (wyzesense2mqtt.py).            *)
(*                                                                         *)
(* Bytes are the naturals 0..255, byte strings are sequences of bytes.     *)
(* A packet is a record [cmd, payload]; the payload of an ASYNC_ACK is the *)
(* acknowledged 16-bit opcode (an integer), every other payload is a byte  *)
(* string, as in Packet.__init__.                                          *)
(***************************************************************************)
EXTENDS Integers, Sequences, FiniteSets, TLC

VARIABLES
    cpkt,       \* codec harness: the constructor-built packet
    cbuf,       \* codec harness: the byte string written by Packet.Send
    cres,       \* codec harness: the result of Packet.Parse on cbuf
    cstage,     \* codec harness: "built" | "sent" | "mutated" | "parsed" | "reparsed" | "idle"
    hid,        \* bytes the dongle has put on the HID endpoint and the reader has not read
    script,     \* history: the items (frames, garbage) the dongle has put on the endpoint
    nreads,     \* history: number of non-empty HID reads so far
    wbuf,       \* Dongle._Worker: the rolling buffer s
    wpc,        \* Dongle._Worker: "idle" | "loop" | "lookup" | "ack" | "invoke" | "done"
    wpkt,       \* Dongle._HandlePacket: the packet being handled
    whandler,   \* Dongle._HandlePacket: the handler looked up for it
    handlers,   \* Dongle.__handlers: opcode -> handler
    exit_event, \* Dongle.__exit_event
    fd,         \* Dongle.__fd: "unopened" | "open" | "closed" (os.close done) | "none"
    last_exception, \* Dongle.__last_exception
    trace,      \* history: packets received, bytes written, handlers invoked, in order
    mpc,        \* the caller's position: "ready" | "new" | "start" | "step" | "stop" | "join" |
                \*   "close" | "clear" | "raised" | "stopped" | "constructed" | "op"
    hstep,      \* _Start: index of the handshake step in progress
    cpc,        \* _DoCommand: "idle" | "set" | "send" | "wait" | "restore" | "returned" | "timeout" | "oserror"
    ccmd,       \* _DoCommand: the command packet pkt
    cold,       \* _DoCommand: oldHandler
    cid,        \* number of _DoCommand calls begun; the current call's e and ctx
    cevt,       \* _DoCommand: e.isSet() of the current call
    cresult,    \* _DoSimpleCommand: ctx.result of the current call
    cwait,      \* _DoCommand: result = e.wait(timeout)
    mexc,       \* the exception leaving Dongle.__init__ ("none" while there is none)
    hsnap,      \* history: the handler table as it was when the current _DoCommand began
    read_failed, \* history: an os.read of the reader task has raised OSError
    peer,       \* _DoCommand of a second thread (the MQTT callback thread): pc, pkt, old, id,
                \*   evt, wait, result
    mqtt,       \* the MQTT callback thread inside on_message_remove / on_message_reload:
                \*   pc ("idle" | "removing" | "written" | "cleared" | "read"), mac, and n, the
                \*   number of messages it has begun to handle
    tick,       \* the availability check of the main loop, "for mac in SENSORS_STATE":
                \*   pc ("idle" | "iter" | "raised"), now, todo (the keys the iterator has
                \*   yet to yield), size (len of the dict when the iterator was made), bound
                \*   (SENSORS_STATE still names the dict being iterated), exc
    files,      \* the files under CONFIG_PATH: sensors (sensors.yaml), state (state.yaml)
    io,         \* lock: the thread holding Dongle.__lock ("none" while it is free);
                \*   writers: the threads inside os.write on the descriptor
    cerr,       \* the outcome of the caller's last CheckError: "unchecked" | "ok" | the exception raised
    aname,      \* the API call in progress or ended: "none" | "List" | "Scan" | "Delete"
    aarg,       \* its argument: the mac of Delete
    apc,        \* its position, named after the command in flight; "idle" before, "done" after
    actx,       \* its CmdContext: count, index, sensors (List); evt, result (Scan); and the
                \*   locals of Scan: old (old_handler), exc (the exception on its way through
                \*   finally), found (s_mac, s_type, s_ver as last unpacked from ctx.result)
    aret,       \* its outcome: how it ended ("none" | "return" | "raise") and the value or exception
    hpre,       \* history: the handler table when the API call was entered
    SENSORS,        \* gateway: the sensors configuration, mac -> [timeout, sw_version]
    SENSORS_STATE,  \* gateway: mac -> [last_seen, online]
    clock,          \* time.time(), in seconds since the gateway initialised its sensors
    published,      \* history: the messages handed to mqtt_publish, in order
    delivered,      \* history: the SensorEvent objects handed to the event callback, in order
    gpc,        \* gateway __main__: "idle" | "main" | "discover" | "backoff" | "open" |
                \*   "init_sensors" | "running" | "failed" | "exited" | "crashed"
    gtries      \* gateway: number of calls of init_wyzesense_dongle made by @retry

codecVars == <<cpkt, cbuf, cres, cstage>>

envVars == <<hid, script, nreads>>

workerVars == <<wbuf, wpc, wpkt, whandler, last_exception>>

dongleVars == <<handlers, exit_event, fd>>

mainVars == <<mpc, hstep, cpc, ccmd, cold, cid, cevt, cresult, cwait, mexc, hsnap>>

gwVars == <<gpc, gtries>>

apiVars == <<aname, aarg, apc, actx, aret, hpre>>

regVars == <<SENSORS, SENSORS_STATE, clock, published, delivered>>

threadVars == <<mqtt, tick, files>>

callVars == <<cerr, peer, io, threadVars, apiVars, regVars>>

vars == <<codecVars, envVars, workerVars, dongleVars, trace, mainVars, gwVars, read_failed, callVars>>

-----------------------------------------------------------------------------
(* Byte-string helpers (Python slicing, sum, find).                        *)

RECURSIVE SumBytes(_)
SumBytes(s) == IF s = <<>> THEN 0 ELSE Head(s) + SumBytes(Tail(s))

\* Python s[a:b] for 0 <= a, 0 <= b (0-based, b exclusive, clipped to len(s)).
Slice(s, a, b) == SubSeq(s, a + 1, IF b < Len(s) THEN b ELSE Len(s))

\* Python s[a:]
SliceFrom(s, a) == SubSeq(s, a + 1, Len(s))

\* struct.pack(">H", v)
PackBE16(v) == << (v \div 256) % 256, v % 256 >>

\* struct.pack(">Q", v) for v < 2^32 (the four high bytes are zero)
PackBE64(v) ==
    << 0, 0, 0, 0, (v \div 16777216) % 256, (v \div 65536) % 256,
       (v \div 256) % 256, v % 256 >>

-----------------------------------------------------------------------------
(* Opcodes.                                                                *)

TYPE_SYNC == 67      \* 0x43
TYPE_ASYNC == 83     \* 0x53

MAKE_CMD(type, cmd) == (type * 256) + cmd

CMD_GET_ENR == MAKE_CMD(TYPE_SYNC, 2)
CMD_GET_MAC == MAKE_CMD(TYPE_SYNC, 4)
CMD_GET_KEY == MAKE_CMD(TYPE_SYNC, 6)
CMD_INQUIRY_Async == MAKE_CMD(TYPE_ASYNC, 39)     \* an Inquiry of class 0x53
CMD_INQUIRY == MAKE_CMD(TYPE_SYNC, 39)
CMD_UPDATE_CC1310 == MAKE_CMD(TYPE_SYNC, 18)
CMD_SET_CH554_UPGRADE == MAKE_CMD(TYPE_SYNC, 14)
ASYNC_ACK == MAKE_CMD(TYPE_ASYNC, 255)
CMD_FINISH_AUTH == MAKE_CMD(TYPE_ASYNC, 20)
CMD_GET_DONGLE_VERSION == MAKE_CMD(TYPE_ASYNC, 22)
CMD_START_STOP_SCAN == MAKE_CMD(TYPE_ASYNC, 28)
CMD_GET_SENSOR_R1 == MAKE_CMD(TYPE_ASYNC, 33)
CMD_VERIFY_SENSOR == MAKE_CMD(TYPE_ASYNC, 35)
CMD_DEL_SENSOR_Alarm == MAKE_CMD(TYPE_ASYNC, 24)   \* a Delete answered at 0x5319
CMD_DEL_SENSOR == MAKE_CMD(TYPE_ASYNC, 37)
CMD_GET_SENSOR_COUNT == MAKE_CMD(TYPE_ASYNC, 46)
CMD_GET_SENSOR_LIST == MAKE_CMD(TYPE_ASYNC, 48)
CMD_PLAY_CHIME == MAKE_CMD(TYPE_ASYNC, 112)
NOTIFY_SENSOR_ALARM == MAKE_CMD(TYPE_ASYNC, 25)
NOTIFY_SENSOR_SCAN == MAKE_CMD(TYPE_ASYNC, 32)
NOTIFY_SYNC_TIME == MAKE_CMD(TYPE_ASYNC, 50)
NOTIFY_EVENT_LOG == MAKE_CMD(TYPE_ASYNC, 53)
NOTIFY_SENSOR_ALARM2 == MAKE_CMD(TYPE_ASYNC, 85)

-----------------------------------------------------------------------------
(* Frame codec.                                                            *)

checksum_from_bytes(s) == SumBytes(s) % 65536

\* Packet.__init__
Packet(cmd, payload) == [cmd |-> cmd, payload |-> payload]

\* Packet.Length
PacketLength(pkt) == IF pkt.cmd = ASYNC_ACK THEN 7 ELSE Len(pkt.payload) + 7

\* The magic Packet.Send packs: struct.pack(">H", 0xAA55) is the bytes AA 55.
SendMagic == PackBE16(43605)

\* A layout that puts the acknowledged subcode in the subcode byte.
PacketBytes_AckInSub(pkt) ==
    LET head == SendMagic \o << pkt.cmd \div 256 >>
        body == IF pkt.cmd = ASYNC_ACK
                THEN head \o << pkt.cmd % 256, pkt.payload % 256 >>
                ELSE head \o << Len(pkt.payload) + 3, pkt.cmd % 256 >> \o pkt.payload
    IN  body \o PackBE16(checksum_from_bytes(body))

\* The bytes Packet.Send hands to os.write.
PacketBytes(pkt) ==
    LET head == SendMagic \o << pkt.cmd \div 256 >>
        body == IF pkt.cmd = ASYNC_ACK
                THEN head \o << pkt.payload % 256, pkt.cmd % 256 >>
                ELSE head \o << Len(pkt.payload) + 3, pkt.cmd % 256 >> \o pkt.payload
    IN  body \o PackBE16(checksum_from_bytes(body))

\* Results of Packet.Parse: a packet, None ("invalid"), EOFError ("eof"),
\* or the AssertionError of "assert len(s) >= 7" ("assert").
ParseInvalid == [kind |-> "invalid"]
ParseEOF == [kind |-> "eof"]
ParseAssert == [kind |-> "assert"]
ParsePkt(cmd, payload) == [kind |-> "pkt", cmd |-> cmd, payload |-> payload]

\* A payload cut that keeps the two checksum bytes.
FramePayload_KeepChecksum(f) == SubSeq(f, 6, Len(f))

\* payload = s[5:-2] of the frame cut out of the buffer
FramePayload(f) == SubSeq(f, 6, Len(f) - 2)

\* A decoder that does not compare the checksums.
ParseChecked_NoVerify(s, cmd, payload) == ParsePkt(cmd, payload)

\* The tail of Packet.Parse once the frame s has been cut out of the buffer.
ParseChecked(s, cmd, payload) ==
    LET cs_remote == (s[Len(s) - 1] * 256) + s[Len(s)]
        cs_local == checksum_from_bytes(SubSeq(s, 1, Len(s) - 2))
    IN  IF cs_remote # cs_local THEN ParseInvalid ELSE ParsePkt(cmd, payload)

Parse(s) ==
    IF Len(s) < 5 THEN ParseEOF
    ELSE
      LET magic == (s[1] * 256) + s[2]
          cmd_type == s[3]
          b2 == s[4]
          cmd_id == s[5]
          cmd == MAKE_CMD(cmd_type, cmd_id)
      IN  IF magic # 21930 /\ magic # 43605 THEN ParseInvalid
          ELSE IF cmd = ASYNC_ACK
          THEN IF Len(s) < 7 THEN ParseAssert
               ELSE ParseChecked(Slice(s, 0, 7), cmd, MAKE_CMD(cmd_type, b2))
          ELSE IF Len(s) >= b2 + 4
          THEN LET f == Slice(s, 0, b2 + 4)
               IN  ParseChecked(f, cmd, FramePayload(f))
          ELSE ParseEOF

-----------------------------------------------------------------------------
(* Packet factory.  Inputs are drawn from the small sets below; every      *)
(* constructor's assertions (MAC of 8 characters, 16-byte random block,    *)
(* count <= 0xFF, ring id in 0..0xFF) hold of them.  Packet.DelAllSensor   *)
(* reads the undefined attribute CMD_DEL_ALL_SENSOR and raises before it   *)
(* builds anything, so it contributes no packet.                           *)

MacA == << 55, 55, 54, 65, 53, 67, 69, 49 >>      \* "776A5CE1"
MacB == << 65, 65, 66, 66, 67, 67, 68, 68 >>      \* "AABBCCDD"
MacZero == [i \in 1..8 |-> 48]                    \* "00000000", in invalid_mac_list
Macs == {MacA, MacB}

\* struct.pack("<LLLL", *[0x30303030] * 4)
EnrRandom == [i \in 1..16 |-> 48]

\* b'Ok5HPNQ4lf77u754'
ScanKey == << 79, 107, 53, 72, 80, 78, 81, 52, 108, 102, 55, 55, 117, 55, 53, 52 >>

MaxCount == 2
MaxVolume == 10
MaxClock == 1

Counts == 0..MaxCount
Volumes == 0..MaxVolume
\* int(time.time() * 1000), abstracted to a few instants
Clock == { 1000 * t : t \in 0..MaxClock }

PktGetVersion == Packet(CMD_GET_DONGLE_VERSION, <<>>)
PktInquiry == Packet(CMD_INQUIRY, <<>>)
PktGetEnr(r) == Packet(CMD_GET_ENR, r)
PktGetMAC == Packet(CMD_GET_MAC, <<>>)
PktGetKey == Packet(CMD_GET_KEY, <<>>)
PktEnableScan == Packet(CMD_START_STOP_SCAN, << 1 >>)
PktDisableScan == Packet(CMD_START_STOP_SCAN, << 0 >>)
PktGetSensorCount == Packet(CMD_GET_SENSOR_COUNT, <<>>)
PktGetSensorList(count) == Packet(CMD_GET_SENSOR_LIST, << count >>)
PktFinishAuth == Packet(CMD_FINISH_AUTH, << 255 >>)
PktDelSensor(mac) == Packet(CMD_DEL_SENSOR, mac)
PktGetSensorR1(mac, r) == Packet(CMD_GET_SENSOR_R1, mac \o r)
PktVerifySensor(mac) == Packet(CMD_VERIFY_SENSOR, mac \o << 255, 4 >>)
PktUpdateCC1310 == Packet(CMD_UPDATE_CC1310, <<>>)
PktCh554Upgrade == Packet(CMD_SET_CH554_UPGRADE, <<>>)
PktPlayChime(mac, ringid, repeat_cnt, volume) ==
    LET v == IF volume < 1 THEN 1 ELSE IF volume > 9 THEN 9 ELSE volume
    IN  Packet(CMD_PLAY_CHIME, mac \o << ringid, repeat_cnt, v >>)
\* A SyncTimeAck that echoes the opcode of the notification.
PktSyncTimeAck_Echo(now) == Packet(NOTIFY_SYNC_TIME, PackBE64(now))

PktSyncTimeAck(now) == Packet(NOTIFY_SYNC_TIME + 1, PackBE64(now))
PktAsyncAck(cmd) == Packet(ASYNC_ACK, cmd)

\* The asynchronous opcodes the reader acknowledges.
AsyncCmds ==
    { NOTIFY_SENSOR_ALARM, NOTIFY_SENSOR_SCAN, NOTIFY_SYNC_TIME, NOTIFY_EVENT_LOG,
      NOTIFY_SENSOR_ALARM2, CMD_FINISH_AUTH + 1, CMD_GET_DONGLE_VERSION + 1,
      CMD_START_STOP_SCAN + 1, CMD_GET_SENSOR_COUNT + 1, CMD_GET_SENSOR_LIST + 1 }

\* Every packet a constructor other than AsyncAck builds from the inputs above.
PayloadPackets ==
    { PktGetVersion, PktInquiry, PktGetEnr(EnrRandom), PktGetMAC, PktGetKey,
      PktEnableScan, PktDisableScan, PktGetSensorCount, PktFinishAuth,
      PktUpdateCC1310, PktCh554Upgrade }
    \cup { PktGetSensorList(c) : c \in Counts }
    \cup { PktDelSensor(m) : m \in Macs }
    \cup { PktGetSensorR1(m, ScanKey) : m \in Macs }
    \cup { PktVerifySensor(m) : m \in Macs }
    \cup { PktPlayChime(MacA, 1, 2, v) : v \in Volumes }
    \cup { PktSyncTimeAck(t) : t \in Clock }

AckPackets == { PktAsyncAck(c) : c \in AsyncCmds }

-----------------------------------------------------------------------------
(* The dongle side of the wire.  The dongle answers with the magic in the  *)
(* byte order 55 AA, the order Dongle._Worker searches for.                *)

DongleMagic == << 85, 170 >>

\* A frame as the dongle puts it on the endpoint.
DongleBytes(pkt) == DongleMagic \o SliceFrom(PacketBytes(pkt), 2)

-----------------------------------------------------------------------------
(* Dongle: handler table, reader task.                                     *)

NoPkt == [cmd |-> 0, payload |-> <<>>]
NoHandler == [kind |-> "none", id |-> 0]
DefaultHandler == [kind |-> "_DefaultHandler", id |-> 0]
OnSyncTime == [kind |-> "_OnSyncTime", id |-> 0]
OnSensorAlarm == [kind |-> "_OnSensorAlarm", id |-> 0]
OnSensorAlarm2 == [kind |-> "_OnSensorAlarm2", id |-> 0]
OnEventLog == [kind |-> "_OnEventLog", id |-> 0]
\* the lambda _DoCommand builds around cmd_handler of _DoSimpleCommand, for call n
SimpleHandler(n) == [kind |-> "cmd_handler", id |-> n]

\* Dongle.__lock free and no thread inside os.write.
IoIdle == [lock |-> "none", writers |-> {}]

\* The MQTT callback thread between two messages
MqttIdle == [pc |-> "idle", mac |-> <<>>, n |-> 0]

\* The main loop outside its availability check
TickIdle == [pc |-> "idle", now |-> 0, todo |-> <<>>, size |-> 0, bound |-> TRUE, exc |-> "none"]

\* No file under CONFIG_PATH has been looked at
NoFiles == [sensors |-> <<>>, state |-> <<>>]

ThreadsIdle == mqtt = MqttIdle /\ tick = TickIdle /\ files = NoFiles

\* A thread that is not in _DoCommand.
NoPeer == [pc |-> "idle", pkt |-> NoPkt, old |-> NoHandler, id |-> 0, evt |-> FALSE,
           wait |-> FALSE, result |-> NoPkt]

\* Dongle.__init__: self.__handlers
InitHandlers ==
    (NOTIFY_SYNC_TIME :> OnSyncTime) @@ (NOTIFY_SENSOR_ALARM :> OnSensorAlarm)
    @@ (NOTIFY_SENSOR_ALARM2 :> OnSensorAlarm2) @@ (NOTIFY_EVENT_LOG :> OnEventLog)

\* self.__handlers.get(cmd, None)
HandlerAt(table, cmd) == IF cmd \in DOMAIN table THEN table[cmd] ELSE NoHandler

\* Dongle._SetHandler: the table after pop(cmd) and, for a handler, the insert
SetHandler(table, cmd, handler) ==
    LET popped == [c \in (DOMAIN table) \ {cmd} |-> table[c]]
    IN  IF handler # NoHandler THEN (cmd :> handler) @@ popped ELSE popped

\* Dongle._HandlePacket: self.__handlers.get(pkt.Cmd, self._DefaultHandler)
Lookup(table, cmd) == IF cmd \in DOMAIN table THEN table[cmd] ELSE DefaultHandler

\* A reader that acknowledges nothing.
NeedsAck_Never(cmd) == FALSE

\* Dongle._HandlePacket: (pkt.Cmd >> 8) == TYPE_ASYNC and pkt.Cmd != Packet.ASYNC_ACK
NeedsAck(cmd) == (cmd \div 256) = TYPE_ASYNC /\ cmd # ASYNC_ACK

\* A search that looks at the first two bytes only.
FindMagic_AtStart(b) == IF Len(b) >= 2 /\ b[1] = 85 /\ b[2] = 170 THEN 0 ELSE -1

\* Python s.find(b"\x55\xAA"): 0-based index of the first occurrence, or -1
FindMagic(b) ==
    LET hits == { i \in 1..(Len(b) - 1) : b[i] = 85 /\ b[i + 1] = 170 }
    IN  IF hits = {} THEN -1
        ELSE (CHOOSE i \in hits : \A j \in hits : i <= j) - 1

\* The HID report carrying the next k bytes: a count byte, then the bytes.
Report(k) == IF k = 0 THEN <<>> ELSE << k >> \o SubSeq(hid, 1, k)

\* Dongle._ReadRawHID on a report (empty when nothing could be read)
ReadRawHID(report) ==
    IF report = <<>> THEN <<>>
    ELSE LET length == IF report[1] > 63 THEN 63 ELSE report[1]
         IN  SubSeq(report, 2, 1 + length)

Ev(by, ev, cmd, data, h) == [by |-> by, ev |-> ev, cmd |-> cmd, data |-> data, h |-> h]

\* The reader task ends with an exception latched in __last_exception.
WorkerFault(e) ==
    /\ wpc' = "done"
    /\ last_exception' = e

\* The buffer after a successful parse: s = s[pkt.Length:]
Consume(buf, pkt) == SliceFrom(buf, PacketLength(pkt))

\* A reader that throws a partial frame away.
KeepPartial_Drop(buf) == <<>>

\* The buffer kept when Parse raised EOFError
KeepPartial(buf) == buf

\* One iteration of the while loop of Dongle._Worker, reading a report of k bytes,
\* up to the call of _HandlePacket.
WorkerLoop(k) ==
    /\ wpc = "loop"
    /\ IF exit_event
       THEN /\ wpc' = "done"
            /\ UNCHANGED <<hid, nreads, wbuf, wpkt, whandler, last_exception, trace, read_failed>>
       ELSE IF fd = "none"
       THEN \* os.read(None, 0x40) raises TypeError, which _ReadRawHID does not catch
            /\ WorkerFault("TypeError")
            /\ UNCHANGED <<hid, nreads, wbuf, wpkt, whandler, trace, read_failed>>
       ELSE
         LET failed == fd # "open" \/ k < 0        \* os.read raises OSError: b""
             n == IF failed THEN 0 ELSE k
             s1 == wbuf \o ReadRawHID(Report(n))
             start == FindMagic(s1)
             s2 == SliceFrom(s1, start)
             r == Parse(s2)
         IN  /\ hid' = SliceFrom(hid, n)
             /\ nreads' = IF n > 0 THEN nreads + 1 ELSE nreads
             /\ read_failed' = (read_failed \/ failed)
             /\ IF start = -1
                THEN /\ wbuf' = s1
                     /\ UNCHANGED <<wpc, wpkt, whandler, last_exception, trace>>
                ELSE IF r.kind = "invalid"
                THEN /\ wbuf' = SliceFrom(s2, 2)
                     /\ UNCHANGED <<wpc, wpkt, whandler, last_exception, trace>>
                ELSE IF r.kind = "eof"
                THEN /\ wbuf' = KeepPartial(s2)
                     /\ UNCHANGED <<wpc, wpkt, whandler, last_exception, trace>>
                ELSE IF r.kind = "assert"
                THEN /\ wbuf' = s2
                     /\ WorkerFault("AssertionError:Parse")
                     /\ UNCHANGED <<wpkt, whandler, trace>>
                ELSE LET pkt == Packet(r.cmd, r.payload)
                     IN  /\ wbuf' = Consume(s2, pkt)
                         /\ wpkt' = pkt
                         /\ wpc' = "lookup"
                         /\ trace' = Append(trace,
                               Ev("worker", "rx", pkt.cmd, Slice(s2, 0, PacketLength(pkt)), NoHandler))
                         /\ UNCHANGED <<whandler, last_exception>>
    /\ UNCHANGED <<codecVars, script, dongleVars, mainVars, gwVars, callVars>>

\* _HandlePacket: the lookup under the lock
WorkerLookup ==
    /\ wpc = "lookup"
    /\ whandler' = Lookup(handlers, wpkt.cmd)
    /\ wpc' = IF NeedsAck(wpkt.cmd) THEN "ack" ELSE "invoke"
    /\ UNCHANGED <<codecVars, envVars, wbuf, wpkt, last_exception, dongleVars, trace, mainVars, gwVars,
                   read_failed, callVars>>

\* The packet _HandlePacket acknowledges a received opcode with
AckFor(cmd) == PktAsyncAck(cmd)

\* _HandlePacket: self._SendPacket(Packet.AsyncAck(pkt.Cmd))
WorkerAck ==
    /\ wpc = "ack"
    /\ fd = "open"
    /\ trace' = Append(trace,
          Ev("worker", "tx", ASYNC_ACK, PacketBytes(AckFor(wpkt.cmd)), NoHandler))
    /\ wpc' = "invoke"
    /\ UNCHANGED <<codecVars, envVars, wbuf, wpkt, whandler, last_exception, dongleVars, mainVars, gwVars,
                   read_failed, callVars>>

\* os.write fails (the device is gone, or the descriptor was closed): the
\* exception leaves _HandlePacket before the handler is called.
WorkerWriteError ==
    /\ wpc = "ack" \/ (wpc = "invoke" /\ whandler = OnSyncTime)
    /\ WorkerFault(IF fd = "none" THEN "TypeError" ELSE "OSError")
    /\ UNCHANGED <<codecVars, envVars, wbuf, wpkt, whandler, dongleVars, trace, mainVars, gwVars,
                   read_failed, callVars>>

\* _HandlePacket: handler(pkt), for the handlers installed at construction
WorkerInvokeNotify ==
    /\ wpc = "invoke"
    /\ whandler.kind # "cmd_handler"
    /\ LET call == Ev("worker", "call", wpkt.cmd, <<>>, whandler)
       IN
       \/ /\ whandler = OnSyncTime
          /\ fd = "open"
          /\ \E now \in Clock :
                trace' = trace \o << call,
                   Ev("worker", "tx", NOTIFY_SYNC_TIME + 1,
                      PacketBytes(PktSyncTimeAck(now)), NoHandler) >>
          /\ wpc' = "loop"
          /\ UNCHANGED last_exception
       \/ /\ whandler = OnEventLog
          /\ trace' = Append(trace, call)
          /\ IF Len(wpkt.payload) >= 9
             THEN wpc' = "loop" /\ UNCHANGED last_exception
             ELSE WorkerFault("AssertionError:_OnEventLog")
       \/ /\ whandler \in {OnSensorAlarm, OnSensorAlarm2, DefaultHandler}
          \* short alarm payloads are logged and dropped; _DefaultHandler passes
          /\ whandler = OnSensorAlarm => Len(wpkt.payload) < 19
          /\ whandler = OnSensorAlarm2 => Len(wpkt.payload) < 10
          /\ trace' = Append(trace, call)
          /\ wpc' = "loop"
          /\ UNCHANGED last_exception
    /\ UNCHANGED <<codecVars, envVars, wbuf, wpkt, whandler, dongleVars, mainVars, gwVars,
                   read_failed, callVars>>

-----------------------------------------------------------------------------
(* Initial values of the parts a specification does not exercise.          *)

EmptyTable == [c \in {} |-> NoHandler]

NoCtx == [count |-> 0, index |-> 0, sensors |-> <<>>, evt |-> FALSE, result |-> <<>>,
          old |-> NoHandler, exc |-> "none", found |-> <<>>]
NoRet == [how |-> "none", value |-> <<>>]

\* No sensors, no time passed, nothing published.
RegIdle ==
    /\ SENSORS = EmptyTable /\ SENSORS_STATE = EmptyTable /\ clock = 0
    /\ published = <<>> /\ delivered = <<>>

ApiIdle ==
    /\ aname = "none" /\ aarg = <<>> /\ apc = "idle" /\ actx = NoCtx /\ aret = NoRet
    /\ hpre = EmptyTable

CodecIdle ==
    /\ cpkt = NoPkt
    /\ cbuf = <<>>
    /\ cres = ParseEOF
    /\ cstage = "idle"

\* No caller: the session is constructed and no command is in progress.
MainIdle ==
    /\ mpc = "ready"
    /\ hstep = 0
    /\ cpc = "idle"
    /\ ccmd = NoPkt
    /\ cold = NoHandler
    /\ cid = 0
    /\ cevt = FALSE
    /\ cresult = NoPkt
    /\ cwait = FALSE
    /\ mexc = "none" /\ cerr = "unchecked" /\ peer = NoPeer /\ io = IoIdle /\ ThreadsIdle /\ ApiIdle /\ RegIdle
    /\ hsnap = InitHandlers

GatewayIdle ==
    /\ gpc = "idle"
    /\ gtries = 0

\* A constructed Dongle whose reader task runs and has read nothing yet.
DongleRunning ==
    /\ nreads = 0
    /\ wbuf = <<>>
    /\ wpc = "loop"
    /\ wpkt = NoPkt
    /\ whandler = NoHandler
    /\ handlers = InitHandlers
    /\ exit_event = FALSE
    /\ fd = "open"
    /\ last_exception = "none"
    /\ trace = <<>>
    /\ read_failed = FALSE

-----------------------------------------------------------------------------
(* Codec harness: build a packet, Send it, optionally change one payload   *)
(* byte of the written bytes, Parse the result.                            *)

\* 1-based positions of the payload bytes inside the bytes Send writes.
PayloadPositions(pkt) ==
    IF pkt.cmd = ASYNC_ACK THEN {} ELSE { 5 + i : i \in 1..Len(pkt.payload) }

\* Replacement values tried for a corrupted byte whose value was old.
Corruptions(old) ==
    { 0, 85, 170, 255, (old + 1) % 256, (old + 255) % 256, (old + 128) % 256 } \ { old }

CodecInit ==
    /\ \/ cpkt \in PayloadPackets
       \/ cpkt \in AckPackets
    /\ cbuf = <<>>
    /\ cres = ParseEOF
    /\ cstage = "built"
    /\ DongleRunning /\ script = <<>> /\ hid = <<>>
    /\ MainIdle /\ GatewayIdle

CodecSend ==
    /\ cstage = "built"
    /\ cbuf' = PacketBytes(cpkt)
    /\ cstage' = "sent"
    /\ UNCHANGED <<cpkt, cres, envVars, workerVars, dongleVars, trace, mainVars, gwVars,
                   read_failed, callVars>>

CodecCorrupt ==
    /\ cstage = "sent"
    /\ \E i \in PayloadPositions(cpkt) : \E v \in Corruptions(cbuf[i]) :
          cbuf' = [cbuf EXCEPT ![i] = v]
    /\ cstage' = "mutated"
    /\ UNCHANGED <<cpkt, cres, envVars, workerVars, dongleVars, trace, mainVars, gwVars,
                   read_failed, callVars>>

CodecParse ==
    /\ cstage \in {"sent", "mutated"}
    /\ cres' = Parse(cbuf)
    /\ cstage' = IF cstage = "sent" THEN "parsed" ELSE "reparsed"
    /\ UNCHANGED <<cpkt, cbuf, envVars, workerVars, dongleVars, trace, mainVars, gwVars,
                   read_failed, callVars>>

CodecNext == CodecSend \/ CodecCorrupt \/ CodecParse

SpecCodec == CodecInit /\ [][CodecNext]_vars

-----------------------------------------------------------------------------
(* Reader harness: the dongle puts frames on the endpoint, the reader task *)
(* reads them in reports of any size and dispatches them.                  *)

MaxFrames == 2

FrAck == DongleBytes(PktAsyncAck(CMD_FINISH_AUTH))
FrInquiryReply == DongleBytes(Packet(CMD_INQUIRY + 1, << 1 >>))
FrAlarmShort == DongleBytes(Packet(NOTIFY_SENSOR_ALARM, << 162 >>))
FrSyncTime == DongleBytes(Packet(NOTIFY_SYNC_TIME, <<>>))
FrEventLogShort == DongleBytes(Packet(NOTIFY_EVENT_LOG, << 0 >>))

InboundFrames == { FrAck, FrInquiryReply, FrAlarmShort, FrSyncTime, FrEventLogShort }

Item(kind, bytes) == [kind |-> kind, bytes |-> bytes]

\* The sizes a HID read can return: nothing when nothing is pending, else one
\* report of 1..63 bytes.
ReadSizes == IF hid = <<>> THEN {0} ELSE 1..(IF Len(hid) < 63 THEN Len(hid) ELSE 63)

DongleFrame ==
    /\ Len(script) < MaxFrames
    /\ \E f \in InboundFrames :
          /\ hid' = hid \o f
          /\ script' = Append(script, Item("frame", f))
    /\ UNCHANGED <<codecVars, nreads, workerVars, dongleVars, trace, mainVars, gwVars,
                   read_failed, callVars>>

WorkerRead == \E k \in ReadSizes : WorkerLoop(k)

ReaderInit ==
    /\ CodecIdle
    /\ DongleRunning /\ script = <<>> /\ hid = <<>>
    /\ MainIdle /\ GatewayIdle

ReaderNext ==
    \/ DongleFrame
    \/ WorkerRead
    \/ WorkerLookup
    \/ WorkerAck
    \/ WorkerWriteError
    \/ WorkerInvokeNotify

SpecReader == ReaderInit /\ [][ReaderNext]_vars

-----------------------------------------------------------------------------
(* Resync harness: the endpoint holds garbage ++ frame ++ garbage, which   *)
(* the reader task reads in reports of any size.                           *)

GarbageS3 == << 222, 173, 190, 239 >>        \* DE AD BE EF
GarbageFake == << 85, 170, 1, 1, 0 >>        \* 55 AA 01 01 00: its own checksum matches

Garbage == { GarbageS3, GarbageFake, << 0 >>, << 85 >>, << 170, 85 >>, << 85, 170 >> }

ResyncInit ==
    /\ CodecIdle
    /\ DongleRunning
    /\ MainIdle /\ GatewayIdle
    /\ \E g1 \in Garbage \cup { <<>> }, f \in InboundFrames, g2 \in Garbage \cup { <<>> } :
          /\ script = << Item("garbage", g1), Item("frame", f), Item("garbage", g2) >>
          /\ hid = g1 \o f \o g2

ResyncNext ==
    \/ WorkerRead
    \/ WorkerLookup
    \/ WorkerAck
    \/ WorkerWriteError
    \/ WorkerInvokeNotify

SpecResync == ResyncInit /\ [][ResyncNext]_vars

-----------------------------------------------------------------------------
(* Fault latching: one frame arrives, reads may fail, the reader task may  *)
(* fault, and the caller polls CheckError.                                 *)

\* A CheckError that never raises.
CheckErrorResult_Quiet(exc) == "ok"

\* Dongle.CheckError: raise self.__last_exception if there is one
CheckErrorResult(exc) == IF exc = "none" THEN "ok" ELSE exc

CheckError ==
    /\ mpc \in {"ready", "constructed"}
    /\ cerr' = CheckErrorResult(last_exception)
    /\ UNCHANGED <<codecVars, envVars, workerVars, dongleVars, trace, mainVars, gwVars, read_failed,
                   peer, io, threadVars, apiVars, regVars>>

\* os.read raises OSError (the device is gone): _ReadRawHID returns b""
WorkerReadError == fd = "open" /\ WorkerLoop(-1)

DongleFrameOnce ==
    /\ script = <<>>
    /\ \E f \in InboundFrames :
          /\ hid' = hid \o f
          /\ script' = Append(script, Item("frame", f))
    /\ UNCHANGED <<codecVars, nreads, workerVars, dongleVars, trace, mainVars, gwVars,
                   read_failed, callVars>>

LatchNext ==
    \/ DongleFrameOnce
    \/ WorkerRead
    \/ WorkerReadError
    \/ WorkerLookup
    \/ WorkerAck
    \/ WorkerWriteError
    \/ WorkerInvokeNotify
    \/ CheckError

SpecLatch == ReaderInit /\ [][LatchNext]_vars

-----------------------------------------------------------------------------
(* The session: Dongle.__init__, _Start, _DoCommand, Stop, and the gateway  *)
(* start-up (init_wyzesense_dongle under @retry, then init_sensors).        *)

MaxOps == 1        \* commands issued on a constructed session
MaxTries == 2      \* calls of init_wyzesense_dongle the retry wrapper may make

\* _Start: the command of the k-th bring-up step
HandshakeCmd(k) ==
    CASE k = 1 -> PktInquiry
      [] k = 2 -> PktGetEnr(EnrRandom)
      [] k = 3 -> PktGetMAC
      [] k = 4 -> PktGetVersion
      [] OTHER -> PktFinishAuth

\* bytes.decode('ascii') succeeds
IsAscii(b) == \A i \in 1..Len(b) : b[i] < 128

\* A bring-up that accepts any reply.
StepAccepts_Any(k, payload) == TRUE

\* The checks _Inquiry, _GetEnr, _GetMac, _GetVersion, _FinishAuth make on resp.Payload
StepAccepts(k, payload) ==
    CASE k = 1 -> Len(payload) = 1 /\ payload[1] = 1
      [] k = 2 -> Len(payload) = 16
      [] k = 3 -> Len(payload) = 8 /\ IsAscii(payload)
      [] k = 4 -> IsAscii(payload)
      [] OTHER -> Len(payload) = 0

\* The exception a failed check raises
StepError(k, payload) ==
    IF (k = 3 /\ Len(payload) = 8) \/ k = 4 THEN "UnicodeDecodeError" ELSE "AssertionError"

\* except IOError: OSError and its subclass TimeoutError
IOErrors == { "OSError", "TimeoutError" }

\* retry_if_io_error
retry_if_io_error(exception) == exception \in IOErrors

\* Commands issued on a constructed session: _GetMac, and SendRaw of a packet
\* whose reply opcode is NOTIFY_SYNC_TIME.
OpCmds == { PktGetMAC, Packet(NOTIFY_SYNC_TIME - 1, <<>>) }

\* The reply payloads the dongle may answer an opcode with
ReplyPayloads(cmd) ==
    CASE cmd = CMD_INQUIRY -> { << 1 >>, << 0 >> }
      [] cmd = CMD_GET_ENR -> { [i \in 1..16 |-> 7], << 7 >> }
      [] cmd = CMD_GET_MAC -> { MacA, << 55, 55, 54, 65, 53, 67, 69, 200 >> }
      [] cmd = CMD_GET_DONGLE_VERSION -> { << 48, 46 >>, << 255 >> }
      [] cmd = CMD_FINISH_AUTH -> { <<>>, << 0 >> }
      [] OTHER -> { <<>> }

NoiseFrames == { FrSyncTime, FrAlarmShort, FrEventLogShort }

MainTx == SelectSeq(trace, LAMBDA e : e.by = "main" /\ e.ev = "tx")

Replies == SelectSeq(script, LAMBDA it : it.kind = "reply")

Noise == SelectSeq(script, LAMBDA it : it.kind = "frame")

\* The dongle answers the command written last.
DongleReply ==
    /\ Len(Replies) < Len(MainTx)
    /\ \E p \in ReplyPayloads(MainTx[Len(MainTx)].cmd) :
          LET f == DongleBytes(Packet(MainTx[Len(MainTx)].cmd + 1, p))
          IN  /\ hid' = hid \o f
              /\ script' = Append(script, Item("reply", f))
    /\ UNCHANGED <<codecVars, nreads, workerVars, dongleVars, trace, mainVars, gwVars,
                   read_failed, callVars>>

\* The dongle sends a notification of its own: one, no later than the first
\* command in progress.
DongleNotify ==
    /\ fd = "open"
    /\ Noise = <<>>
    /\ cid <= 1
    /\ \E f \in NoiseFrames :
          /\ hid' = hid \o f
          /\ script' = Append(script, Item("frame", f))
    /\ UNCHANGED <<codecVars, nreads, workerVars, dongleVars, trace, mainVars, gwVars,
                   read_failed, callVars>>

\* The reader reads the pending report whole.
WorkerReadReport == WorkerLoop(IF Len(hid) < 63 THEN Len(hid) ELSE 63)

\* _HandlePacket: handler(pkt) for the lambda of _DoCommand. The closure of an
\* earlier call sets the event and context of that call, which nobody reads.
WorkerInvokeCmd ==
    /\ wpc = "invoke"
    /\ whandler.kind = "cmd_handler"
    /\ trace' = Append(trace, Ev("worker", "call", wpkt.cmd, wpkt.payload, whandler))
    /\ IF whandler.id = cid
       THEN cresult' = wpkt /\ cevt' = TRUE
       ELSE UNCHANGED <<cresult, cevt>>
    /\ wpc' = "loop"
    /\ UNCHANGED <<codecVars, envVars, wbuf, wpkt, whandler, last_exception, dongleVars,
                   mpc, hstep, cpc, ccmd, cold, cid, cwait, mexc, hsnap, gwVars,
                   read_failed, callVars>>

\* Dongle.__init__: os.open and the handler table, or OSError from os.open
DongleOpen ==
    /\ mpc = "new"
    /\ \/ /\ fd' = "open"
          /\ handlers' = InitHandlers
          /\ mpc' = "start"
          /\ UNCHANGED mexc
       \/ /\ mexc' = "OSError"
          /\ mpc' = "raised"
          /\ UNCHANGED <<fd, handlers>>
    /\ UNCHANGED <<codecVars, envVars, workerVars, exit_event, trace,
                   hstep, cpc, ccmd, cold, cid, cevt, cresult, cwait, hsnap, gwVars,
                   read_failed, callVars>>

\* _Start: self.__thread.start()
Start ==
    /\ mpc = "start"
    /\ wpc' = "loop"
    /\ hstep' = 1
    /\ mpc' = "step"
    /\ UNCHANGED <<codecVars, envVars, wbuf, wpkt, whandler, last_exception, dongleVars, trace,
                   cpc, ccmd, cold, cid, cevt, cresult, cwait, mexc, hsnap, gwVars,
                   read_failed, callVars>>

\* _DoCommand up to _SetHandler(pkt.Cmd + 1, lambda pkt: handler(pkt, e))
DoCommandBegin(pkt, handler) ==
    /\ cpc = "idle"
    /\ ccmd' = pkt
    /\ cid' = cid + 1
    /\ cevt' = FALSE
    /\ cresult' = NoPkt
    /\ cold' = HandlerAt(handlers, pkt.cmd + 1)
    /\ hsnap' = handlers
    /\ handlers' = SetHandler(handlers, pkt.cmd + 1, handler)
    /\ trace' = Append(trace, Ev("main", "set", pkt.cmd, <<>>, handler))
    /\ cpc' = "send"
    /\ UNCHANGED <<codecVars, envVars, workerVars, exit_event, fd,
                   hstep, cwait, mexc, gwVars, read_failed>>

\* _DoSimpleCommand: _DoCommand with the cmd_handler that stores the reply
DoCommandSet(pkt, pos) ==
    /\ DoCommandBegin(pkt, SimpleHandler(cid + 1))
    /\ mpc' = pos
    /\ UNCHANGED callVars

StepCommand == mpc = "step" /\ DoCommandSet(HandshakeCmd(hstep), "step")

OpCommand ==
    /\ mpc = "constructed"
    /\ cid < MaxOps
    /\ \E pkt \in OpCmds : DoCommandSet(pkt, "op")

\* _DoCommand: self._SendPacket(pkt)
DoCommandSend ==
    /\ cpc = "send"
    /\ fd = "open"
    /\ trace' = Append(trace, Ev("main", "tx", ccmd.cmd, PacketBytes(ccmd), NoHandler))
    /\ cpc' = "wait"
    /\ UNCHANGED <<codecVars, envVars, workerVars, dongleVars,
                   mpc, hstep, ccmd, cold, cid, cevt, cresult, cwait, mexc, hsnap, gwVars,
                   read_failed, callVars>>

\* os.write raises OSError: the exception leaves _DoCommand at once
DoCommandSendError ==
    /\ cpc = "send"
    /\ cpc' = "oserror"
    /\ UNCHANGED <<codecVars, envVars, workerVars, dongleVars, trace,
                   mpc, hstep, ccmd, cold, cid, cevt, cresult, cwait, mexc, hsnap, gwVars,
                   read_failed, callVars>>

\* A completion wait without a timeout: it returns only once the event is set.
DoCommandWait_Unbounded ==
    /\ cpc = "wait"
    /\ cevt
    /\ cwait' = cevt
    /\ cpc' = "restore"
    /\ UNCHANGED <<codecVars, envVars, workerVars, dongleVars, trace,
                   mpc, hstep, ccmd, cold, cid, cevt, cresult, mexc, hsnap, gwVars,
                   read_failed, callVars>>

\* _DoCommand: result = e.wait(timeout)
DoCommandWait ==
    /\ cpc = "wait"
    /\ cwait' = cevt
    /\ cpc' = "restore"
    /\ UNCHANGED <<codecVars, envVars, workerVars, dongleVars, trace,
                   mpc, hstep, ccmd, cold, cid, cevt, cresult, mexc, hsnap, gwVars,
                   read_failed, callVars>>

\* A command that leaves its handler in the table.
RestoreEntry_Keep(table, cmd, old) == table

\* _DoCommand: self._SetHandler(pkt.Cmd + 1, oldHandler)
RestoreEntry(table, cmd, old) == SetHandler(table, cmd + 1, old)

\* _DoCommand: the restore, then return or raise TimeoutError
DoCommandRestore ==
    /\ cpc = "restore"
    /\ handlers' = RestoreEntry(handlers, ccmd.cmd, cold)
    /\ cpc' = IF cwait THEN "returned" ELSE "timeout"
    /\ UNCHANGED <<codecVars, envVars, workerVars, exit_event, fd, trace,
                   mpc, hstep, ccmd, cold, cid, cevt, cresult, cwait, mexc, hsnap, gwVars,
                   read_failed, callVars>>

\* _Start: the check a step makes on the reply, then the next step
StepCheck ==
    /\ mpc = "step"
    /\ cpc = "returned"
    /\ cpc' = "idle"
    /\ IF StepAccepts(hstep, cresult.payload)
       THEN /\ IF hstep < 5
               THEN hstep' = hstep + 1 /\ UNCHANGED mpc
               ELSE mpc' = "constructed" /\ UNCHANGED hstep
            /\ UNCHANGED mexc
       ELSE /\ mexc' = StepError(hstep, cresult.payload)
            /\ mpc' = "stop"
            /\ UNCHANGED hstep
    /\ UNCHANGED <<codecVars, envVars, workerVars, dongleVars, trace,
                   ccmd, cold, cid, cevt, cresult, cwait, hsnap, gwVars, read_failed, callVars>>

\* _Start: except: -- a step raised TimeoutError or OSError
StepFail ==
    /\ mpc = "step"
    /\ cpc \in {"timeout", "oserror"}
    /\ mexc' = IF cpc = "timeout" THEN "TimeoutError" ELSE "OSError"
    /\ mpc' = "stop"
    /\ cpc' = "idle"
    /\ UNCHANGED <<codecVars, envVars, workerVars, dongleVars, trace,
                   hstep, ccmd, cold, cid, cevt, cresult, cwait, hsnap, gwVars,
                   read_failed, callVars>>

\* Stop: self.__exit_event.set()
StopSet ==
    /\ mpc = "stop"
    /\ exit_event' = TRUE
    /\ mpc' = "join"
    /\ UNCHANGED <<codecVars, envVars, workerVars, handlers, fd, trace,
                   hstep, cpc, ccmd, cold, cid, cevt, cresult, cwait, mexc, hsnap, gwVars,
                   read_failed, callVars>>

\* Stop: self.__thread.join(timeout) returns, the thread ended or not
StopJoin ==
    /\ mpc = "join"
    /\ mpc' = "close"
    /\ UNCHANGED <<codecVars, envVars, workerVars, dongleVars, trace,
                   hstep, cpc, ccmd, cold, cid, cevt, cresult, cwait, mexc, hsnap, gwVars,
                   read_failed, callVars>>

\* Stop: os.close(self.__fd)
StopClose ==
    /\ mpc = "close"
    /\ fd' = "closed"
    /\ mpc' = "clear"
    /\ UNCHANGED <<codecVars, envVars, workerVars, handlers, exit_event, trace,
                   hstep, cpc, ccmd, cold, cid, cevt, cresult, cwait, mexc, hsnap, gwVars,
                   read_failed, callVars>>

\* Stop: self.__fd = None; then _Start re-raises, or Stop returns to its caller
StopClear ==
    /\ mpc = "clear"
    /\ fd' = "none"
    /\ mpc' = IF mexc # "none" THEN "raised" ELSE "stopped"
    /\ UNCHANGED <<codecVars, envVars, workerVars, handlers, exit_event, trace,
                   hstep, cpc, ccmd, cold, cid, cevt, cresult, cwait, mexc, hsnap, gwVars,
                   read_failed, callVars>>

\* The caller of _DoSimpleCommand gets the result or the exception.
OpEnd ==
    /\ mpc = "op"
    /\ cpc \in {"returned", "timeout", "oserror"}
    /\ mpc' = "constructed"
    /\ cpc' = "idle"
    /\ UNCHANGED <<codecVars, envVars, workerVars, dongleVars, trace,
                   hstep, ccmd, cold, cid, cevt, cresult, cwait, mexc, hsnap, gwVars,
                   read_failed, callVars>>

\* __main__: init_wyzesense_dongle() is called through the retry wrapper
GwCallInit ==
    /\ gpc = "main"
    /\ gpc' = "discover"
    /\ gtries' = gtries + 1
    /\ UNCHANGED <<codecVars, envVars, workerVars, dongleVars, trace, mainVars,
                   read_failed, callVars>>

\* init_wyzesense_dongle: the device path (subprocess.check_output for "auto"),
\* then wyzesense.Open; the subprocess can raise OSError or CalledProcessError
GwDiscover ==
    /\ gpc = "discover"
    /\ \/ gpc' = "open" /\ mpc' = "new"
       \/ gpc' = (IF retry_if_io_error("OSError") THEN "backoff" ELSE "crashed")
             /\ UNCHANGED mpc
       \/ gpc' = (IF retry_if_io_error("CalledProcessError") THEN "backoff" ELSE "crashed")
             /\ UNCHANGED mpc
    /\ UNCHANGED <<codecVars, envVars, workerVars, dongleVars, trace,
                   hstep, cpc, ccmd, cold, cid, cevt, cresult, cwait, mexc, hsnap, gtries,
                   read_failed, callVars>>

\* @retry: the wait is over, init_wyzesense_dongle is called again
GwRetry ==
    /\ gpc = "backoff"
    /\ gtries < MaxTries
    /\ gpc' = "discover"
    /\ gtries' = gtries + 1
    /\ UNCHANGED <<codecVars, envVars, workerVars, dongleVars, trace, mainVars,
                   read_failed, callVars>>

\* init_wyzesense_dongle: wyzesense.Open returned; WYZESENSE_DONGLE is assigned,
\* the function returns and __main__ goes on to init_sensors()
GwOpenReturn ==
    /\ gpc = "open"
    /\ mpc = "constructed"
    /\ gpc' = "init_sensors"
    /\ UNCHANGED <<codecVars, envVars, workerVars, dongleVars, trace, mainVars, gtries,
                   read_failed, callVars>>

\* init_wyzesense_dongle: wyzesense.Open raised. except IOError logs the error and
\* the function returns; any other exception leaves it and is not retried.
GwOpenFailed ==
    /\ gpc = "open"
    /\ mpc = "raised"
    /\ gpc' = IF mexc \in IOErrors THEN "init_sensors" ELSE "crashed"
    /\ UNCHANGED <<codecVars, envVars, workerVars, dongleVars, trace, mainVars, gtries,
                   read_failed, callVars>>

\* init_sensors: WYZESENSE_DONGLE.List() with no WYZESENSE_DONGLE assigned
GwInitSensors ==
    /\ gpc = "init_sensors"
    /\ mpc # "constructed"
    /\ gpc' = "crashed"
    /\ UNCHANGED <<codecVars, envVars, workerVars, dongleVars, trace, mainVars, gtries,
                   read_failed, callVars>>

\* A caller (the gateway, the command-line tool) is about to construct a Dongle.
Unconstructed ==
    /\ CodecIdle
    /\ hid = <<>> /\ script = <<>> /\ nreads = 0
    /\ wbuf = <<>> /\ wpc = "idle" /\ wpkt = NoPkt /\ whandler = NoHandler
    /\ last_exception = "none"
    /\ handlers = EmptyTable /\ exit_event = FALSE /\ fd = "unopened"
    /\ trace = <<>>
    /\ read_failed = FALSE
    /\ hstep = 0 /\ cpc = "idle" /\ ccmd = NoPkt /\ cold = NoHandler
    /\ cid = 0 /\ cevt = FALSE /\ cresult = NoPkt /\ cwait = FALSE /\ mexc = "none" /\ cerr = "unchecked" /\ peer = NoPeer /\ io = IoIdle /\ ThreadsIdle /\ ApiIdle /\ RegIdle
    /\ hsnap = EmptyTable

BringUpNext ==
    \/ DongleOpen
    \/ Start
    \/ StepCommand
    \/ DoCommandSend
    \/ DoCommandSendError
    \/ DoCommandWait
    \/ DoCommandRestore
    \/ StepCheck
    \/ StepFail
    \/ StopSet
    \/ StopJoin
    \/ StopClose
    \/ StopClear

SessionWorkerNext ==
    \/ WorkerReadReport
    \/ WorkerLookup
    \/ WorkerAck
    \/ WorkerWriteError
    \/ WorkerInvokeNotify
    \/ WorkerInvokeCmd

(* Session: commands on a constructed session.                             *)
SessionInit ==
    /\ CodecIdle
    /\ DongleRunning /\ script = <<>> /\ hid = <<>>
    /\ mpc = "constructed" /\ hstep = 5 /\ cpc = "idle" /\ ccmd = NoPkt /\ cold = NoHandler
    /\ cid = 0 /\ cevt = FALSE /\ cresult = NoPkt /\ cwait = FALSE /\ mexc = "none" /\ cerr = "unchecked" /\ peer = NoPeer /\ io = IoIdle /\ ThreadsIdle /\ ApiIdle /\ RegIdle
    /\ hsnap = InitHandlers
    /\ GatewayIdle

SessionNext ==
    \/ OpCommand
    \/ DoCommandSend
    \/ DoCommandSendError
    \/ DoCommandWait
    \/ DoCommandRestore
    \/ OpEnd
    \/ SessionWorkerNext
    \/ DongleReply
    \/ DongleNotify

SpecSession == SessionInit /\ [][SessionNext]_vars

(* Bring-up alone, with both threads getting to run.                       *)
HandshakeNext ==
    \/ BringUpNext
    \/ SessionWorkerNext
    \/ DongleReply
    \/ DongleNotify

HandshakeInit ==
    /\ Unconstructed
    /\ mpc = "new"
    /\ GatewayIdle

SpecHandshake ==
    HandshakeInit /\ [][HandshakeNext]_vars /\ WF_vars(BringUpNext \/ SessionWorkerNext)

(* Inquiry: the bring-up against a dongle that answers the Inquiry only,   *)
(* with a reply of class 0x43 or of class 0x53.                            *)

InquiryReplies ==
    { DongleBytes(Packet(MAKE_CMD(TYPE_SYNC, 40), << 1 >>)),
      DongleBytes(Packet(MAKE_CMD(TYPE_ASYNC, 40), << 1 >>)) }

DongleInquiryReply ==
    /\ Len(MainTx) = 1
    /\ Replies = <<>>
    /\ \E f \in InquiryReplies :
          /\ hid' = hid \o f
          /\ script' = Append(script, Item("reply", f))
    /\ UNCHANGED <<codecVars, nreads, workerVars, dongleVars, trace, mainVars, gwVars,
                   read_failed, callVars>>

InquiryNext ==
    \/ BringUpNext
    \/ SessionWorkerNext
    \/ DongleInquiryReply

SpecInquiry == HandshakeInit /\ [][InquiryNext]_vars

(* Two threads in _DoCommand: the main thread (init_sensors ->               *)
(* valid_sensor_mac -> Delete) and the MQTT callback thread                  *)
(* (on_message_remove -> Delete) on the session the reader task serves.      *)

PeerCall == MaxOps + 1     \* the identity of the second thread's event and context

PeerFrame == <<codecVars, envVars, workerVars, exit_event, fd, mainVars, gwVars,
               read_failed, cerr, io, threadVars, apiVars, regVars>>

\* valid_sensor_mac: WYZESENSE_DONGLE.Delete(sensor_mac), on the main thread
MainDelete ==
    /\ mpc = "constructed"
    /\ cid < MaxOps
    /\ DoCommandSet(PktDelSensor(MacA), "op")

\* on_message_remove: WYZESENSE_DONGLE.Delete(sensor_mac) -> _DoSimpleCommand ->
\* _DoCommand up to _SetHandler(pkt.Cmd + 1, lambda pkt: handler(pkt, e))
PeerDelete ==
    /\ mpc \in {"constructed", "op"}
    /\ peer = NoPeer
    /\ \E mac \in {MacA, MacB} :
          LET pkt == PktDelSensor(mac)
          IN  /\ peer' = [pc |-> "send", pkt |-> pkt,
                          old |-> HandlerAt(handlers, pkt.cmd + 1),
                          id |-> PeerCall, evt |-> FALSE, wait |-> FALSE, result |-> NoPkt]
              /\ handlers' = SetHandler(handlers, pkt.cmd + 1, SimpleHandler(PeerCall))
              /\ trace' = Append(trace, Ev("peer", "set", pkt.cmd, <<>>, SimpleHandler(PeerCall)))
    /\ UNCHANGED PeerFrame

\* _DoCommand: self._SendPacket(pkt), or os.write raising OSError
PeerSend ==
    /\ peer.pc = "send"
    /\ \/ /\ fd = "open"
          /\ trace' = Append(trace, Ev("peer", "tx", peer.pkt.cmd, PacketBytes(peer.pkt), NoHandler))
          /\ peer' = [peer EXCEPT !.pc = "wait"]
       \/ /\ peer' = [peer EXCEPT !.pc = "oserror"]
          /\ UNCHANGED trace
    /\ UNCHANGED <<PeerFrame, handlers>>

\* _DoCommand: result = e.wait(timeout)
PeerWait ==
    /\ peer.pc = "wait"
    /\ peer' = [peer EXCEPT !.wait = peer.evt, !.pc = "restore"]
    /\ UNCHANGED <<PeerFrame, handlers, trace>>

\* _DoCommand: self._SetHandler(pkt.Cmd + 1, oldHandler), then return or raise
PeerRestore ==
    /\ peer.pc = "restore"
    /\ handlers' = RestoreEntry(handlers, peer.pkt.cmd, peer.old)
    /\ peer' = [peer EXCEPT !.pc = IF peer.wait THEN "returned" ELSE "timeout"]
    /\ UNCHANGED <<PeerFrame, trace>>

\* _HandlePacket: handler(pkt) for the lambda of either thread's _DoCommand
WorkerInvokeShared ==
    /\ wpc = "invoke"
    /\ whandler.kind = "cmd_handler"
    /\ trace' = Append(trace, Ev("worker", "call", wpkt.cmd, wpkt.payload, whandler))
    /\ IF whandler.id = cid
       THEN cresult' = wpkt /\ cevt' = TRUE
       ELSE UNCHANGED <<cresult, cevt>>
    /\ peer' = IF whandler.id = peer.id
               THEN [peer EXCEPT !.result = wpkt, !.evt = TRUE]
               ELSE peer
    /\ wpc' = "loop"
    /\ UNCHANGED <<codecVars, envVars, wbuf, wpkt, whandler, last_exception, dongleVars,
                   mpc, hstep, cpc, ccmd, cold, cid, cwait, mexc, hsnap, gwVars,
                   read_failed, cerr, io, threadVars, apiVars, regVars>>

AllTx == SelectSeq(trace, LAMBDA e : e.by \in {"main", "peer"} /\ e.ev = "tx")

\* The dongle answers the commands written, in the order they were written.
DongleAnswer ==
    /\ Len(Replies) < Len(AllTx)
    /\ LET c == AllTx[Len(Replies) + 1]
           f == DongleBytes(Packet(c.cmd + 1, SubSeq(c.data, 6, 13) \o << 255 >>))
       IN  /\ hid' = hid \o f
           /\ script' = Append(script, Item("reply", f))
    /\ UNCHANGED <<codecVars, nreads, workerVars, dongleVars, trace, mainVars, gwVars,
                   read_failed, callVars>>

CommandsNext ==
    \/ MainDelete
    \/ DoCommandSend
    \/ DoCommandSendError
    \/ DoCommandWait
    \/ DoCommandRestore
    \/ OpEnd
    \/ PeerDelete
    \/ PeerSend
    \/ PeerWait
    \/ PeerRestore
    \/ WorkerReadReport
    \/ WorkerLookup
    \/ WorkerAck
    \/ WorkerWriteError
    \/ WorkerInvokeNotify
    \/ WorkerInvokeShared
    \/ DongleAnswer

SpecCommands == SessionInit /\ [][CommandsNext]_vars

(* The lock and the writes: a command of the main thread and the reader     *)
(* task, with `with self.__lock` and os.write as steps that begin and end.  *)

WritesFrame == <<codecVars, envVars, gwVars, read_failed, cerr, peer, threadVars, apiVars, regVars>>

\* _DoCommand -> _SetHandler: with self.__lock (entered)
CallLock ==
    /\ mpc = "constructed"
    /\ cpc = "idle"
    /\ cid < MaxOps
    /\ io.lock = "none"
    /\ io' = [io EXCEPT !.lock = "main"]
    /\ cpc' = "set"
    /\ mpc' = "op"
    /\ UNCHANGED <<WritesFrame, workerVars, dongleVars, trace,
                   hstep, ccmd, cold, cid, cevt, cresult, cwait, mexc, hsnap>>

\* _SetHandler: pop, insert, and the end of the with block
CallInstall ==
    /\ cpc = "set"
    /\ io.lock = "main"
    /\ LET pkt == PktDelSensor(MacA)
           handler == SimpleHandler(cid + 1)
       IN  /\ ccmd' = pkt
           /\ cid' = cid + 1
           /\ cevt' = FALSE
           /\ cresult' = NoPkt
           /\ cold' = HandlerAt(handlers, pkt.cmd + 1)
           /\ hsnap' = handlers
           /\ handlers' = SetHandler(handlers, pkt.cmd + 1, handler)
           /\ trace' = Append(trace, Ev("main", "set", pkt.cmd, <<>>, handler))
    /\ io' = [io EXCEPT !.lock = "none"]
    /\ cpc' = "send"
    /\ UNCHANGED <<WritesFrame, workerVars, exit_event, fd, mpc, hstep, cwait, mexc>>

\* _SendPacket -> Packet.Send: os.write(fd, pkt) is entered
CallWriteBegin ==
    /\ cpc = "send"
    /\ fd = "open"
    /\ io' = [io EXCEPT !.writers = @ \cup {"main"}]
    /\ cpc' = "writing"
    /\ UNCHANGED <<WritesFrame, workerVars, dongleVars, trace,
                   mpc, hstep, ccmd, cold, cid, cevt, cresult, cwait, mexc, hsnap>>

\* os.write returns
CallWriteEnd ==
    /\ cpc = "writing"
    /\ io' = [io EXCEPT !.writers = @ \ {"main"}]
    /\ trace' = Append(trace, Ev("main", "tx", ccmd.cmd, PacketBytes(ccmd), NoHandler))
    /\ cpc' = "wait"
    /\ UNCHANGED <<WritesFrame, workerVars, dongleVars,
                   mpc, hstep, ccmd, cold, cid, cevt, cresult, cwait, mexc, hsnap>>

\* _DoCommand: _SetHandler(pkt.Cmd + 1, oldHandler) under the lock, then return or raise
CallRestore ==
    /\ io.lock = "none"
    /\ DoCommandRestore

\* _HandlePacket: with self.__lock: handler = self.__handlers.get(...)
ReaderLookup ==
    /\ io.lock = "none"
    /\ WorkerLookup

\* _HandlePacket -> _SendPacket(Packet.AsyncAck(pkt.Cmd)): os.write is entered
ReaderAckBegin ==
    /\ wpc = "ack"
    /\ fd = "open"
    /\ io' = [io EXCEPT !.writers = @ \cup {"worker"}]
    /\ wpc' = "acking"
    /\ UNCHANGED <<WritesFrame, wbuf, wpkt, whandler, last_exception, dongleVars, trace, mainVars>>

\* os.write returns
ReaderAckEnd ==
    /\ wpc = "acking"
    /\ io' = [io EXCEPT !.writers = @ \ {"worker"}]
    /\ trace' = Append(trace,
          Ev("worker", "tx", ASYNC_ACK, PacketBytes(AckFor(wpkt.cmd)), NoHandler))
    /\ wpc' = "invoke"
    /\ UNCHANGED <<WritesFrame, wbuf, wpkt, whandler, last_exception, dongleVars, mainVars>>

\* The dongle sends a frame of its own while the command is on its way.
DongleFrameDuring ==
    /\ Noise = <<>>
    /\ cpc \in {"set", "send"}
    /\ LET f == DongleBytes(Packet(NOTIFY_EVENT_LOG, << 0, 0, 0, 0, 0, 0, 0, 0, 1 >>))
       IN  /\ hid' = hid \o f
           /\ script' = Append(script, Item("frame", f))
    /\ UNCHANGED <<codecVars, nreads, workerVars, dongleVars, trace, mainVars, gwVars,
                   read_failed, callVars>>

WritesNext ==
    \/ CallLock
    \/ CallInstall
    \/ CallWriteBegin
    \/ CallWriteEnd
    \/ DoCommandSendError
    \/ DoCommandWait
    \/ CallRestore
    \/ OpEnd
    \/ WorkerReadReport
    \/ ReaderLookup
    \/ ReaderAckBegin
    \/ ReaderAckEnd
    \/ WorkerWriteError
    \/ WorkerInvokeNotify
    \/ WorkerInvokeCmd
    \/ DongleReply
    \/ DongleFrameDuring

SpecWrites == SessionInit /\ [][WritesNext]_vars

(* Gateway start-up: __main__ calls init_wyzesense_dongle, then             *)
(* init_sensors.                                                           *)
GatewayNext ==
    \/ GwCallInit
    \/ GwDiscover
    \/ GwRetry
    \/ GwOpenReturn
    \/ GwOpenFailed
    \/ GwInitSensors

GatewayInit ==
    /\ Unconstructed
    /\ mpc = "ready"
    /\ gpc = "main" /\ gtries = 0

GatewaySpecNext ==
    \/ GatewayNext
    \/ BringUpNext
    \/ SessionWorkerNext
    \/ DongleReply

SpecGateway == GatewayInit /\ [][GatewaySpecNext]_vars

-----------------------------------------------------------------------------
(* The calls of a constructed session: List, Scan, Delete.                 *)

ListHandler(n) == [kind |-> "list_handler", id |-> n]

\* The call begins: mpc = "api" until it returns or raises.
ApiEnter(name, arg, first) ==
    /\ mpc = "constructed"
    /\ aname = "none"
    /\ aname' = name
    /\ aarg' = arg
    /\ apc' = first
    /\ hpre' = handlers
    /\ mpc' = "api"
    /\ UNCHANGED <<codecVars, envVars, workerVars, dongleVars, trace,
                   hstep, cpc, ccmd, cold, cid, cevt, cresult, cwait, mexc, hsnap, gwVars,
                   read_failed, cerr, peer, io, threadVars, actx, aret, regVars>>

\* The call is at position pos and about to issue pkt through _DoCommand.
ApiCommand(name, pos, pkt, handler) ==
    /\ mpc = "api"
    /\ aname = name
    /\ apc = pos
    /\ DoCommandBegin(pkt, handler)
    /\ UNCHANGED <<mpc, callVars>>

\* _DoCommand has ended, by returning or by raising
CommandEnded == cpc \in {"returned", "timeout", "oserror"}

\* The exception _DoCommand raises: TimeoutError("_DoCommand"), or the OSError of os.write
CommandError == IF cpc = "timeout" THEN "TimeoutError" ELSE "OSError"

ApiReturn(value) ==
    /\ aret' = [how |-> "return", value |-> value]
    /\ apc' = "done"
    /\ mpc' = "constructed"

ApiRaise(exc) ==
    /\ aret' = [how |-> "raise", value |-> exc]
    /\ apc' = "done"
    /\ mpc' = "constructed"

\* What an API step leaves alone besides the command's outcome and the call's position.
ApiStepUnchanged ==
    UNCHANGED <<codecVars, envVars, workerVars, trace,
                hstep, ccmd, cold, cid, cevt, cresult, cwait, mexc, hsnap, gwVars,
                read_failed, cerr, peer, io, threadVars, aname, aarg, hpre, regVars>>

(* List *)

\* List: sensors = self._GetSensors()
ApiList == ApiEnter("List", <<>>, "count")

\* _GetSensors: resp = self._DoSimpleCommand(Packet.GetSensorCount())
ListCount == ApiCommand("List", "count", PktGetSensorCount, SimpleHandler(cid + 1))

\* _GetSensors: assert len(resp.Payload) == 1; count = resp.Payload[0]; the
\* context; "No sensors bond yet" returns the empty list
ListCountDone ==
    /\ mpc = "api" /\ aname = "List" /\ apc = "count"
    /\ CommandEnded
    /\ cpc' = "idle"
    /\ IF cpc # "returned"
       THEN ApiRaise(CommandError) /\ UNCHANGED actx
       ELSE IF Len(cresult.payload) # 1
       THEN ApiRaise("AssertionError") /\ UNCHANGED actx
       ELSE /\ actx' = [NoCtx EXCEPT !.count = cresult.payload[1]]
            /\ IF cresult.payload[1] > 0
               THEN apc' = "list" /\ UNCHANGED <<aret, mpc>>
               ELSE ApiReturn(<<>>)
    /\ ApiStepUnchanged
    /\ UNCHANGED dongleVars

\* _GetSensors: self._DoCommand(Packet.GetSensorList(count), cmd_handler, timeout=10)
ListList == ApiCommand("List", "list", PktGetSensorList(actx.count), ListHandler(cid + 1))

\* A list that is complete with its first MAC.
ListComplete_First(ctx) == ctx.index >= 1

\* _GetSensors.cmd_handler: if ctx.index == ctx.count
ListComplete(ctx) == ctx.index = ctx.count

\* _GetSensors.cmd_handler, run by the reader task for a packet with opcode
\* GetSensorList + 1
WorkerInvokeList ==
    /\ wpc = "invoke"
    /\ whandler.kind = "list_handler"
    /\ trace' = Append(trace, Ev("worker", "call", wpkt.cmd, wpkt.payload, whandler))
    /\ IF Len(wpkt.payload) # 8
       THEN WorkerFault("AssertionError:cmd_handler") /\ UNCHANGED <<actx, cevt>>
       ELSE IF ~IsAscii(wpkt.payload)
       THEN WorkerFault("UnicodeDecodeError") /\ UNCHANGED <<actx, cevt>>
       ELSE LET ctx == [actx EXCEPT !.sensors = Append(@, wpkt.payload), !.index = @ + 1]
            IN  /\ actx' = ctx
                /\ cevt' = (cevt \/ ListComplete(ctx))
                /\ wpc' = "loop"
                /\ UNCHANGED last_exception
    /\ UNCHANGED <<codecVars, envVars, wbuf, wpkt, whandler, dongleVars,
                   mpc, hstep, cpc, ccmd, cold, cid, cresult, cwait, mexc, hsnap, gwVars,
                   read_failed, cerr, peer, io, threadVars, aname, aarg, apc, aret, hpre, regVars>>

\* _GetSensors: return ctx.sensors, or TimeoutError out of _DoCommand
ListListDone ==
    /\ mpc = "api" /\ aname = "List" /\ apc = "list"
    /\ CommandEnded
    /\ cpc' = "idle"
    /\ IF cpc # "returned"
       THEN ApiRaise(CommandError)
       ELSE ApiReturn(actx.sensors)
    /\ ApiStepUnchanged
    /\ UNCHANGED <<dongleVars, actx>>

(* Scan *)

SENSOR_TYPE_SWITCH == 1
SENSOR_TYPE_MOTION == 2
SENSOR_TYPE_LEAK == 3
SENSOR_TYPE_CLIMATE == 7
SENSOR_TYPE_CHIME == 12
SENSOR_TYPE_SWITCH_V2 == 14
SENSOR_TYPE_MOTION_V2 == 15

\* SENSOR_TYPES
SENSOR_TYPES ==
    (SENSOR_TYPE_SWITCH :> "switch") @@ (SENSOR_TYPE_SWITCH_V2 :> "switchv2")
    @@ (SENSOR_TYPE_MOTION :> "motion") @@ (SENSOR_TYPE_MOTION_V2 :> "motionv2")
    @@ (SENSOR_TYPE_LEAK :> "leak") @@ (SENSOR_TYPE_CLIMATE :> "climate")
    @@ (SENSOR_TYPE_CHIME :> "chime")

HexChars == << "0", "1", "2", "3", "4", "5", "6", "7", "8", "9", "A", "B", "C", "D", "E", "F" >>

\* f'{n:02X}' for a byte
Hex02(n) == HexChars[(n \div 16) + 1] \o HexChars[(n % 16) + 1]

RECURSIVE Decimal(_)
\* f'{n}' for a non-negative integer
Decimal(n) == IF n < 10 THEN HexChars[n + 1] ELSE Decimal(n \div 10) \o HexChars[(n % 10) + 1]

\* Scan: SENSOR_TYPES.get(s_type, f'unknown:{s_type:02X}')
ScanTypeName(t) == IF t \in DOMAIN SENSOR_TYPES THEN SENSOR_TYPES[t] ELSE "unknown:" \o Hex02(t)

ScanHandler == [kind |-> "scan_handler", id |-> 0]

\* Scan: ctx = CmdContext(evt, result=None)
ApiScan == ApiEnter("Scan", <<>>, "install")

\* Scan: old_handler = self._SetHandler(Packet.NOTIFY_SENSOR_SCAN, scan_handler)
ScanInstall ==
    /\ mpc = "api" /\ aname = "Scan" /\ apc = "install"
    /\ actx' = [actx EXCEPT !.old = HandlerAt(handlers, NOTIFY_SENSOR_SCAN)]
    /\ handlers' = SetHandler(handlers, NOTIFY_SENSOR_SCAN, ScanHandler)
    /\ apc' = "enable"
    /\ UNCHANGED <<cpc, mpc, aret, exit_event, fd>>
    /\ ApiStepUnchanged

\* Scan.scan_handler, run by the reader task for a NOTIFY_SENSOR_SCAN packet
WorkerInvokeScan ==
    /\ wpc = "invoke"
    /\ whandler.kind = "scan_handler"
    /\ trace' = Append(trace, Ev("worker", "call", wpkt.cmd, wpkt.payload, whandler))
    /\ IF Len(wpkt.payload) # 11
       THEN WorkerFault("AssertionError:scan_handler") /\ UNCHANGED actx
       ELSE IF ~IsAscii(SubSeq(wpkt.payload, 2, 9))
       THEN WorkerFault("UnicodeDecodeError") /\ UNCHANGED actx
       ELSE /\ actx' = [actx EXCEPT
                          !.result = << SubSeq(wpkt.payload, 2, 9), wpkt.payload[10], wpkt.payload[11] >>,
                          !.evt = TRUE]
            /\ wpc' = "loop"
            /\ UNCHANGED last_exception
    /\ UNCHANGED <<codecVars, envVars, wbuf, wpkt, whandler, dongleVars,
                   mpc, hstep, cpc, ccmd, cold, cid, cevt, cresult, cwait, mexc, hsnap, gwVars,
                   read_failed, cerr, peer, io, threadVars, aname, aarg, apc, aret, hpre, regVars>>

\* Scan: self._DoSimpleCommand(Packet.EnableScan())
ScanEnable == ApiCommand("Scan", "enable", PktEnableScan, SimpleHandler(cid + 1))

\* A command of the try block has ended: on to next, or to the finally clause
\* with the exception
ScanTryStep(pos, next) ==
    /\ mpc = "api" /\ aname = "Scan" /\ apc = pos
    /\ CommandEnded
    /\ cpc' = "idle"
    /\ IF cpc = "returned"
       THEN apc' = next /\ UNCHANGED actx
       ELSE apc' = "finally" /\ actx' = [actx EXCEPT !.exc = CommandError]
    /\ UNCHANGED <<mpc, aret, dongleVars>>
    /\ ApiStepUnchanged

ScanEnableDone == ScanTryStep("enable", "discover")

\* Scan: if ctx.evt.wait(timeout): s_mac, s_type, s_ver = ctx.result;
\* else "Sensor discovery timeout..."
ScanDiscover ==
    /\ mpc = "api" /\ aname = "Scan" /\ apc = "discover"
    /\ IF actx.evt
       THEN apc' = "r1" /\ actx' = [actx EXCEPT !.found = actx.result]
       ELSE apc' = "disable" /\ UNCHANGED actx
    /\ UNCHANGED <<cpc, mpc, aret, dongleVars>>
    /\ ApiStepUnchanged

\* Scan: r1 = self._GetSensorR1(s_mac, b'Ok5HPNQ4lf77u754')
ScanR1 == ApiCommand("Scan", "r1", PktGetSensorR1(actx.found[1], ScanKey), SimpleHandler(cid + 1))

\* A Scan that leaves scanning enabled after the key exchange.
ScanR1Done_SkipDisable == ScanTryStep("r1", "finally")

ScanR1Done == ScanTryStep("r1", "disable")

\* Scan: self._DoSimpleCommand(Packet.DisableScan())
ScanDisable == ApiCommand("Scan", "disable", PktDisableScan, SimpleHandler(cid + 1))

ScanDisableDone == ScanTryStep("disable", "finally")

\* Scan: finally: self._SetHandler(Packet.NOTIFY_SENSOR_SCAN, old_handler); an
\* exception of the try block goes on to the caller
ScanFinally ==
    /\ mpc = "api" /\ aname = "Scan" /\ apc = "finally"
    /\ handlers' = SetHandler(handlers, NOTIFY_SENSOR_SCAN, actx.old)
    /\ IF actx.exc # "none"
       THEN ApiRaise(actx.exc)
       ELSE apc' = "result" /\ UNCHANGED <<aret, mpc>>
    /\ UNCHANGED <<cpc, actx, exit_event, fd>>
    /\ ApiStepUnchanged

\* Scan: if ctx.result: s_mac, s_type, s_ver = ctx.result; else return None
ScanResult ==
    /\ mpc = "api" /\ aname = "Scan" /\ apc = "result"
    /\ IF actx.result # <<>>
       THEN apc' = "verify" /\ actx' = [actx EXCEPT !.found = actx.result]
                            /\ UNCHANGED <<aret, mpc>>
       ELSE ApiReturn(<<>>) /\ UNCHANGED actx
    /\ UNCHANGED <<cpc, dongleVars>>
    /\ ApiStepUnchanged

\* Scan: self._DoSimpleCommand(Packet.VerifySensor(s_mac), 10)
ScanVerify == ApiCommand("Scan", "verify", PktVerifySensor(actx.found[1]), SimpleHandler(cid + 1))

\* Scan: the type name, the version string, return ctx.result
ScanVerifyDone ==
    /\ mpc = "api" /\ aname = "Scan" /\ apc = "verify"
    /\ CommandEnded
    /\ cpc' = "idle"
    /\ IF cpc = "returned"
       THEN ApiReturn(<< actx.found[1], ScanTypeName(actx.found[2]), Decimal(actx.found[3]) >>)
       ELSE ApiRaise(CommandError)
    /\ UNCHANGED <<actx, dongleVars>>
    /\ ApiStepUnchanged

(* Delete *)

\* A Delete that does not compare the MAC echoed by the dongle.
DeleteError_AnyMac(payload, mac) ==
    IF Len(payload) # 9 \/ payload[9] # 255 THEN "AssertionError" ELSE "none"

\* Delete: the asserts and the decode on resp.Payload, in the order of the code;
\* "none" when all pass
DeleteError(payload, mac) ==
    IF Len(payload) # 9 THEN "AssertionError"
    ELSE IF ~IsAscii(SubSeq(payload, 1, 8)) THEN "UnicodeDecodeError"
    ELSE IF payload[9] # 255 THEN "AssertionError"
    ELSE IF SubSeq(payload, 1, 8) # mac THEN "AssertionError"
    ELSE "none"

\* Delete(mac)
ApiDelete == \E mac \in {MacA} : ApiEnter("Delete", mac, "del")

\* Delete: resp = self._DoSimpleCommand(Packet.DelSensor(str(mac)))
DeleteCommand == ApiCommand("Delete", "del", PktDelSensor(aarg), SimpleHandler(cid + 1))

\* Delete: the checks on the reply, then return
DeleteDone ==
    /\ mpc = "api" /\ aname = "Delete" /\ apc = "del"
    /\ CommandEnded
    /\ cpc' = "idle"
    /\ IF cpc # "returned"
       THEN ApiRaise(CommandError)
       ELSE IF DeleteError(cresult.payload, aarg) # "none"
       THEN ApiRaise(DeleteError(cresult.payload, aarg))
       ELSE ApiReturn(<<>>)
    /\ UNCHANGED <<actx, dongleVars>>
    /\ ApiStepUnchanged

(* The dongle's side of the calls. *)

ShortMac == << 65 >>

\* The reply payloads the dongle may answer a session call's command with
ApiReplyPayloads(pkt) ==
    CASE pkt.cmd = CMD_GET_SENSOR_COUNT -> { << n >> : n \in 0..MaxCount } \cup { <<>> }
      [] pkt.cmd = CMD_GET_SENSOR_LIST -> { MacA, MacB, ShortMac }
      [] pkt.cmd = CMD_START_STOP_SCAN -> { << 1 >> }
      [] pkt.cmd = CMD_GET_SENSOR_R1 -> { << 1 >> }
      [] pkt.cmd = CMD_VERIFY_SENSOR -> { <<>> }
      [] pkt.cmd = CMD_DEL_SENSOR ->
            { pkt.payload \o << 255 >>, pkt.payload \o << 0 >>, MacB \o << 255 >>,
              pkt.payload, pkt.payload \o << 255, 255 >>,
              << 200 >> \o SubSeq(pkt.payload, 2, 8) \o << 255 >> }
      [] OTHER -> { <<>> }

More == SelectSeq(script, LAMBDA it : it.kind = "more")

\* The dongle answers the command written last.
DongleApiReply ==
    /\ Len(Replies) < Len(MainTx)
    /\ ccmd.cmd = MainTx[Len(MainTx)].cmd
    /\ \E p \in ApiReplyPayloads(ccmd) :
          LET f == DongleBytes(Packet(ccmd.cmd + 1, p))
          IN  /\ hid' = hid \o f
              /\ script' = Append(script, Item("reply", f))
    /\ UNCHANGED <<codecVars, nreads, workerVars, dongleVars, trace, mainVars, gwVars,
                   read_failed, callVars>>

\* The further frames of the reply to GetSensorList(count): count frames in all.
DongleListMore ==
    /\ Len(Replies) = Len(MainTx)
    /\ Len(MainTx) > 0
    /\ ccmd.cmd = CMD_GET_SENSOR_LIST
    /\ MainTx[Len(MainTx)].cmd = CMD_GET_SENSOR_LIST
    /\ Len(More) < ccmd.payload[1] - 1
    /\ \E p \in ApiReplyPayloads(ccmd) :
          LET f == DongleBytes(Packet(ccmd.cmd + 1, p))
          IN  /\ hid' = hid \o f
              /\ script' = Append(script, Item("more", f))
    /\ UNCHANGED <<codecVars, nreads, workerVars, dongleVars, trace, mainVars, gwVars,
                   read_failed, callVars>>

\* NOTIFY_SENSOR_SCAN payload: a leading byte, the 8 MAC bytes, type, version
FoundPayload(mac, type, ver) == << 0 >> \o mac \o << type, ver >>

\* The sensors in pairing mode: a contact sensor and one of a type not in SENSOR_TYPES
FoundPayloads == { FoundPayload(MacA, SENSOR_TYPE_SWITCH, 23), FoundPayload(MacB, 9, 5) }

Found == SelectSeq(script, LAMBDA it : it.kind = "found")

\* A sensor in pairing mode is heard while the dongle is scanning: each once.
DongleFound ==
    /\ aname = "Scan"
    /\ Len(MainTx) >= 1
    /\ fd = "open"
    /\ \E p \in FoundPayloads :
          LET f == DongleBytes(Packet(NOTIFY_SENSOR_SCAN, p))
          IN  /\ \A i \in 1..Len(Found) : Found[i].bytes # f
              /\ hid' = hid \o f
              /\ script' = Append(script, Item("found", f))
    /\ UNCHANGED <<codecVars, nreads, workerVars, dongleVars, trace, mainVars, gwVars,
                   read_failed, callVars>>

ApiCallerNext ==
    \/ ApiList
    \/ ListCount
    \/ ListCountDone
    \/ ListList
    \/ ListListDone
    \/ ApiScan
    \/ ScanInstall
    \/ ScanEnable
    \/ ScanEnableDone
    \/ ScanDiscover
    \/ ScanR1
    \/ ScanR1Done
    \/ ScanDisable
    \/ ScanDisableDone
    \/ ScanFinally
    \/ ScanResult
    \/ ScanVerify
    \/ ScanVerifyDone
    \/ ApiDelete
    \/ DeleteCommand
    \/ DeleteDone
    \/ DoCommandSend
    \/ DoCommandSendError
    \/ DoCommandWait
    \/ DoCommandRestore

ApiWorkerNext ==
    \/ SessionWorkerNext
    \/ WorkerInvokeList
    \/ WorkerInvokeScan

ApiDongleNext ==
    \/ DongleApiReply
    \/ DongleListMore
    \/ DongleFound

ApiNext == ApiCallerNext \/ ApiWorkerNext \/ ApiDongleNext

SpecApi == SessionInit /\ [][ApiNext]_vars

(* List against a dongle that sends one list frame more than it counted.   *)

Extra == SelectSeq(script, LAMBDA it : it.kind = "extra")

DongleListExtra ==
    /\ Len(Replies) = Len(MainTx)
    /\ Len(MainTx) > 0
    /\ MainTx[Len(MainTx)].cmd = CMD_GET_SENSOR_LIST
    /\ Len(More) = MainTx[Len(MainTx)].data[6] - 1
    /\ Extra = <<>>
    /\ LET f == DongleBytes(Packet(CMD_GET_SENSOR_LIST + 1, MacB))
       IN  /\ hid' = hid \o f
           /\ script' = Append(script, Item("extra", f))
    /\ UNCHANGED <<codecVars, nreads, workerVars, dongleVars, trace, mainVars, gwVars,
                   read_failed, callVars>>

ListNext ==
    \/ ApiList
    \/ ListCount
    \/ ListCountDone
    \/ ListList
    \/ ListListDone
    \/ DoCommandSend
    \/ DoCommandSendError
    \/ DoCommandWait
    \/ DoCommandRestore
    \/ SessionWorkerNext
    \/ WorkerInvokeList
    \/ DongleApiReply
    \/ DongleListMore
    \/ DongleListExtra

SpecList == SessionInit /\ [][ListNext]_vars

-----------------------------------------------------------------------------
(* Gateway main loop: the session is constructed, __main__ polls           *)
(* CheckError; an exception ends the loop and the finally clause runs      *)
(* Stop().                                                                 *)

\* A main loop that goes on after a reader fault.
MainLoopAfter_Ignore(exc) == "running"

\* __main__: the try around the loop -- CheckError raising ends the loop
MainLoopAfter(exc) == IF exc = "none" THEN "running" ELSE "failed"

\* __main__: WYZESENSE_DONGLE.CheckError() at the top of a loop iteration; on an
\* exception, except Exception logs it and finally calls Stop()
GwCheckError ==
    /\ gpc = "running"
    /\ mpc = "constructed"
    /\ tick.pc = "idle"
    /\ cerr' = CheckErrorResult(last_exception)
    /\ gpc' = MainLoopAfter(last_exception)
    /\ mpc' = IF MainLoopAfter(last_exception) = "failed" THEN "stop" ELSE mpc
    /\ UNCHANGED <<codecVars, envVars, workerVars, dongleVars, trace,
                   hstep, cpc, ccmd, cold, cid, cevt, cresult, cwait, mexc, hsnap, gtries,
                   read_failed, peer, io, threadVars, apiVars, regVars>>

\* Stop() of the gateway has run to its end: the script ends
GwExit ==
    /\ gpc = "failed"
    /\ mpc = "stopped"
    /\ gpc' = "exited"
    /\ UNCHANGED <<codecVars, envVars, workerVars, dongleVars, trace, mainVars, gtries,
                   read_failed, callVars>>

SuperviseInit ==
    /\ CodecIdle
    /\ DongleRunning /\ script = <<>> /\ hid = <<>>
    /\ mpc = "constructed" /\ hstep = 5 /\ cpc = "idle" /\ ccmd = NoPkt /\ cold = NoHandler
    /\ cid = 0 /\ cevt = FALSE /\ cresult = NoPkt /\ cwait = FALSE
    /\ mexc = "none" /\ cerr = "unchecked" /\ peer = NoPeer /\ io = IoIdle /\ ThreadsIdle /\ ApiIdle /\ RegIdle
    /\ hsnap = InitHandlers
    /\ gpc = "running" /\ gtries = 1

SuperviseMainNext ==
    \/ GwCheckError
    \/ StopSet
    \/ StopJoin
    \/ StopClose
    \/ StopClear
    \/ GwExit

SuperviseWorkerNext ==
    \/ WorkerRead
    \/ WorkerLookup
    \/ WorkerAck
    \/ WorkerWriteError
    \/ WorkerInvokeNotify

SuperviseNext ==
    \/ SuperviseMainNext
    \/ SuperviseWorkerNext
    \/ DongleFrameOnce

SpecSupervise ==
    SuperviseInit /\ [][SuperviseNext]_vars /\ WF_vars(SuperviseMainNext \/ SuperviseWorkerNext)

-----------------------------------------------------------------------------
(* Sensor events and availability: SensorEvent, the gateway's on_event and *)
(* the availability check of its main loop.                                *)

\* Python's None where a number may stand: SENSORS[mac].get('timeout') is None
None == -1

EVENT_TYPE_HEARTBEAT == 161
EVENT_TYPE_ALARM == 162
EVENT_TYPE_CLIMATE == 232

\* BINARY_SENSOR_STATES
BINARY_SENSOR_STATES ==
    (SENSOR_TYPE_SWITCH :> << "closed", "open" >>)
    @@ (SENSOR_TYPE_SWITCH_V2 :> << "closed", "open" >>)
    @@ (SENSOR_TYPE_MOTION :> << "inactive", "active" >>)
    @@ (SENSOR_TYPE_MOTION_V2 :> << "inactive", "active" >>)
    @@ (SENSOR_TYPE_LEAK :> << "dry", "wet" >>)

Min(a, b) == IF a < b THEN a ELSE b

RECURSIVE PackBE(_, _)
\* The k low bytes of n, most significant first
PackBE(n, k) == IF k = 0 THEN <<>> ELSE PackBE(n \div 256, k - 1) \o << n % 256 >>

\* struct '>Q': 8 bytes, big-endian
PackQ(n) == PackBE(n, 8)

RECURSIVE UnpackBE(_)
UnpackBE(b) == IF b = <<>> THEN 0 ELSE 256 * UnpackBE(SubSeq(b, 1, Len(b) - 1)) + b[Len(b)]

\* A SensorEvent that reports the battery byte as received.
SensorEventBattery_Raw(sensor_type, battery) == battery

\* SensorEvent.__init__: the battery of a V2 switch doubled, then capped at 100
SensorEventBattery(sensor_type, battery) ==
    Min(IF sensor_type = SENSOR_TYPES[SENSOR_TYPE_SWITCH_V2] THEN battery * 2 ELSE battery, 100)

\* SensorEvent.__init__: the attributes of the object (kwargs, then event, mac,
\* timestamp), battery and signal_strength adjusted
\* An event object that also has the attributes MAC, Timestamp and Type.
SensorEvent_WithGatewayNames(event, mac, timestamp, kwargs) ==
    [event |-> event, mac |-> mac, timestamp |-> timestamp,
     MAC |-> mac, Timestamp |-> timestamp, Type |-> "seen"] @@ kwargs

SensorEvent(event, mac, timestamp, kwargs) ==
    LET k1 == IF "battery" \in DOMAIN kwargs
              THEN [kwargs EXCEPT !.battery = SensorEventBattery(kwargs.sensor_type, @)]
              ELSE kwargs
        k2 == IF "signal_strength" \in DOMAIN k1
              THEN [k1 EXCEPT !.signal_strength = 0 - @]
              ELSE k1
    IN  [event |-> event, mac |-> mac, timestamp |-> timestamp] @@ k2

Raised(exc) == [kind |-> "raise", exc |-> exc]
Parsed(e) == [kind |-> "event", e |-> e]

\* SensorEvent._UnknownParser(mac, event, sensor_type, timestamp, data)
UnknownParser(mac, event, sensor_type, timestamp, data) ==
    Parsed(SensorEvent("unknown:" \o Hex02(event), mac, timestamp, [raw |-> data]))

\* cls._UnknownParser(mac, event, timestamp, data) as the other parsers call it: one
\* positional argument short
UnknownParserShort == Raised("TypeError")

\* SensorEvent._AlarmParser
AlarmParser(mac, event, sensor_type, timestamp, data) ==
    IF Len(data) < 8 THEN Raised("struct.error")
    ELSE IF sensor_type \notin DOMAIN SENSOR_TYPES THEN UnknownParserShort
    ELSE IF sensor_type \notin DOMAIN BINARY_SENSOR_STATES THEN UnknownParserShort
    ELSE IF data[5] > 1 THEN Raised("IndexError")
    ELSE Parsed(SensorEvent("alarm", mac, timestamp,
                   [sensor_type |-> SENSOR_TYPES[sensor_type], battery |-> data[2],
                    signal_strength |-> data[8],
                    state |-> BINARY_SENSOR_STATES[sensor_type][data[5] + 1]]))

\* SensorEvent._HeartbeatParser
HeartbeatParser(mac, event, sensor_type, timestamp, data) ==
    IF Len(data) < 8 THEN Raised("struct.error")
    ELSE IF sensor_type \notin DOMAIN SENSOR_TYPES THEN UnknownParserShort
    ELSE Parsed(SensorEvent("status", mac, timestamp,
                   [sensor_type |-> SENSOR_TYPES[sensor_type], battery |-> data[2],
                    signal_strength |-> data[8]]))

\* SensorEvent._ClimateParser; the temperature is kept as (degrees, hundredths)
ClimateParser(mac, event, sensor_type, timestamp, data) ==
    IF Len(data) < 10 THEN Raised("struct.error")
    ELSE IF sensor_type # SENSOR_TYPE_CLIMATE THEN UnknownParserShort
    ELSE Parsed(SensorEvent("status", mac, timestamp,
                   [sensor_type |-> SENSOR_TYPES[sensor_type], battery |-> data[2],
                    signal_strength |-> data[10],
                    temperature |-> << data[5], data[6] >>, humidity |-> data[7]]))

\* SensorEvent.Parse: timestamp, event, mac, sensor_type = unpack_from(">QB8sB");
\* the timestamp in seconds; the parser of the event type
SensorEventParse(data) ==
    LET timestamp == UnpackBE(SubSeq(data, 1, 8)) \div 1000
        event == data[9]
        mac == SubSeq(data, 10, 17)
        sensor_type == data[18]
        rest == SliceFrom(data, 18)
    IN  IF ~IsAscii(mac) THEN Raised("UnicodeDecodeError")
        ELSE CASE event = EVENT_TYPE_HEARTBEAT -> HeartbeatParser(mac, event, sensor_type, timestamp, rest)
               [] event = EVENT_TYPE_ALARM -> AlarmParser(mac, event, sensor_type, timestamp, rest)
               [] event = EVENT_TYPE_CLIMATE -> ClimateParser(mac, event, sensor_type, timestamp, rest)
               [] OTHER -> UnknownParser(mac, event, sensor_type, timestamp, rest)

(* The gateway. *)

DEFAULT_V1_TIMEOUT_HOURS == 8
DEFAULT_V2_TIMEOUT_HOURS == 4
V1_SW == { 19 }
V2_SW == { 23 }

\* A gateway that gives every sensor without a timeout of its own the V1 period.
SensorTimeout_V1Only(cfg) ==
    IF cfg.timeout # None THEN cfg.timeout ELSE DEFAULT_V1_TIMEOUT_HOURS * 60 * 60

\* __main__: the timeout the availability check uses for a sensor
SensorTimeout(cfg) ==
    IF cfg.timeout # None
    THEN cfg.timeout
    ELSE IF cfg.sw_version # None /\ cfg.sw_version \in V2_SW
    THEN DEFAULT_V2_TIMEOUT_HOURS * 60 * 60
    ELSE DEFAULT_V1_TIMEOUT_HOURS * 60 * 60

\* An availability check that also flips a sensor seen exactly one timeout ago.
Overdue_AtTimeout(t, last_seen, timeout) == (t - last_seen) >= timeout

\* __main__: if ((now - SENSORS_STATE[mac]['last_seen']) > timeout)
Overdue(t, last_seen, timeout) == (t - last_seen) > timeout

StatusMessage(mac, payload) == [topic |-> << mac, "status" >>, payload |-> payload]

\* The order in which SENSORS_STATE is iterated: insertion order
SensorOrder == << MacA, MacB >>

\* The sensors the availability check finds online and overdue
GoneOffline ==
    { mac \in DOMAIN SENSORS_STATE :
        /\ SENSORS_STATE[mac].online
        /\ Overdue(clock, SENSORS_STATE[mac].last_seen, SensorTimeout(SENSORS[mac])) }

\* __main__: the availability check of one loop iteration, "for mac in
\* SENSORS_STATE"; each sensor found overdue is published offline and marked
GwAvailabilityCheck ==
    /\ gpc = "running"
    /\ GoneOffline # {}
    /\ SENSORS_STATE' = [mac \in DOMAIN SENSORS_STATE |->
                            IF mac \in GoneOffline
                            THEN [SENSORS_STATE[mac] EXCEPT !.online = FALSE]
                            ELSE SENSORS_STATE[mac]]
    /\ published' = published \o
          [i \in 1..Len(SelectSeq(SensorOrder, LAMBDA m : m \in GoneOffline)) |->
              StatusMessage(SelectSeq(SensorOrder, LAMBDA m : m \in GoneOffline)[i], "offline")]
    /\ UNCHANGED <<codecVars, envVars, workerVars, dongleVars, trace, mainVars, gwVars,
                   read_failed, cerr, peer, io, threadVars, apiVars, SENSORS, clock, delivered>>

\* A gateway that publishes the battery it is given.
PublishedBattery_AsGiven(event_type, sensor_battery) == sensor_battery

\* on_event: event_payload['battery'], with "sensor_battery or 0"
PublishedBattery(event_type, sensor_battery) ==
    LET b == IF sensor_battery = None THEN 0 ELSE sensor_battery
    IN  IF event_type = "switchv2" THEN Min(b * 2, 100) ELSE Min(b, 100)

Max(a, b) == IF a > b THEN a ELSE b

\* on_event: signal_dbm = (sensor_signal or 0) * -1
PublishedSignalDbm(sensor_signal) ==
    (IF sensor_signal = None THEN 0 ELSE sensor_signal) * (-1)

\* on_event: signal_pct = min(max(2 * (signal_dbm + 115), 1), 100)
PublishedSignalPct(signal_dbm) == Min(Max(2 * (signal_dbm + 115), 1), 100)

\* States that correlate to ON
STATES_ON == { "active", "open", "wet" }

\* on_event: invert = bool(SENSORS[mac].get('invert_state')) if mac in SENSORS else False
InvertState(sensors, mac) ==
    IF mac \in DOMAIN sensors /\ "invert_state" \in DOMAIN sensors[mac]
    THEN sensors[mac].invert_state
    ELSE FALSE

\* A gateway that publishes the state without looking at invert_state.
PublishedState_NoInvert(sensor_state, invert) == IF sensor_state \in STATES_ON THEN 1 ELSE 0

\* on_event: event_payload['state'] = int((sensor_state in STATES_ON) ^ invert)
PublishedState(sensor_state, invert) ==
    IF (sensor_state \in STATES_ON) # invert THEN 1 ELSE 0

\* valid_sensor_mac: 8 characters and not one of the invalid MACs
valid_sensor_mac(mac) ==
    /\ Len(mac) = 8
    /\ mac # [i \in 1..8 |-> 48]
    /\ mac # [i \in 1..8 |-> 0]

\* on_event(WYZESENSE_DONGLE, event), called by the reader task from _OnSensorAlarm.
\* The attributes it reads are event.MAC, event.Timestamp, event.Type and
\* event.Data; an object without them raises AttributeError at the first read,
\* which leaves through _HandlePacket to the except clause of _Worker.
on_event(event) ==
    IF gpc \notin {"running", "failed"}
    THEN \* INITIALIZED is False
         /\ wpc' = "loop"
         /\ UNCHANGED <<last_exception, SENSORS, SENSORS_STATE, published, files>>
    ELSE IF "MAC" \notin DOMAIN event
    THEN /\ WorkerFault("AttributeError")
         /\ UNCHANGED <<SENSORS, SENSORS_STATE, published, files>>
    ELSE IF ~valid_sensor_mac(event.MAC)
    THEN \* "Unpairing bad MAC": Delete from the reader task times out, the event is dropped
         /\ wpc' = "loop"
         /\ UNCHANGED <<last_exception, SENSORS, SENSORS_STATE, published, files>>
    ELSE /\ SENSORS' = IF event.MAC \in DOMAIN SENSORS THEN SENSORS
                       ELSE (event.MAC :> [timeout |-> None, sw_version |-> None]) @@ SENSORS
         \* add_sensor_to_config: write_yaml_file(sensors.yaml, SENSORS)
         /\ files' = IF event.MAC \in DOMAIN SENSORS THEN files
                     ELSE [files EXCEPT !.sensors = SENSORS']
         /\ SENSORS_STATE' = (event.MAC :> [last_seen |-> event.Timestamp, online |-> TRUE])
                                @@ SENSORS_STATE
         /\ published' = published \o << StatusMessage(event.MAC, "online") >> \o
               (IF event.Type \in {"alarm", "status"}
                THEN << [topic |-> << event.MAC >>,
                         payload |-> [event |-> event.Type,
                                      signal_dbm |-> PublishedSignalDbm(event.Data[4]),
                                      signal_strength |->
                                          PublishedSignalPct(PublishedSignalDbm(event.Data[4])),
                                      battery |-> PublishedBattery(event.Data[1], event.Data[3]),
                                      state |-> PublishedState(event.Data[2],
                                                               InvertState(SENSORS, event.MAC))]] >>
                ELSE <<>>)
         /\ wpc' = "loop"
         /\ UNCHANGED last_exception

\* _OnSensorAlarm for a payload of at least 19 bytes: e = SensorEvent.Parse(pkt.Payload);
\* self.__on_event(self, e)
WorkerInvokeAlarm ==
    /\ wpc = "invoke"
    /\ whandler = OnSensorAlarm
    /\ Len(wpkt.payload) >= 19
    /\ trace' = Append(trace, Ev("worker", "call", wpkt.cmd, <<>>, whandler))
    /\ LET r == SensorEventParse(wpkt.payload)
       IN  IF r.kind = "raise"
           THEN /\ WorkerFault(r.exc)
                /\ UNCHANGED <<delivered, SENSORS, SENSORS_STATE, published, files>>
           ELSE /\ delivered' = Append(delivered, r.e)
                /\ on_event(r.e)
    /\ UNCHANGED <<codecVars, envVars, wbuf, wpkt, whandler, dongleVars, mainVars, gwVars,
                   read_failed, cerr, peer, io, mqtt, tick, apiVars, clock>>

(* Availability: two configured sensors, seen when the gateway initialised. *)

ExplicitTimeout == 60     \* a timeout of one minute in the sensors configuration

SensorConfigs == [timeout : {None, ExplicitTimeout}, sw_version : {None, 19, 23}]

Timeouts ==
    { ExplicitTimeout, DEFAULT_V2_TIMEOUT_HOURS * 60 * 60, DEFAULT_V1_TIMEOUT_HOURS * 60 * 60 }

\* The instants looked at: around each timeout after the sensors were seen
Times == UNION { { t - 1, t, t + 1 } : t \in Timeouts }

TimePasses ==
    /\ \E t \in Times : t > clock /\ clock' = t
    /\ UNCHANGED <<codecVars, envVars, workerVars, dongleVars, trace, mainVars, gwVars,
                   read_failed, cerr, peer, io, threadVars, apiVars, SENSORS, SENSORS_STATE, published, delivered>>

\* NOTIFY_SENSOR_ALARM payload: timestamp in ms, event, mac, sensor type, then
\* (_, battery, _, _, state, seq, signal_strength)
AlarmPayload(ms, event, mac, sensor_type, battery, state, signal) ==
    PackQ(ms) \o << event >> \o mac \o << sensor_type >>
    \o << 0, battery, 0, 0, state, 0, 1, signal >>

\* A sensor reports: the dongle sends its alarm, once.
DongleAlarmOf(events, types, batteries, states, signals) ==
    /\ script = <<>>
    /\ \E event \in events, mac \in DOMAIN SENSORS_STATE, type \in types, battery \in batteries,
          state \in states, signal \in signals :
          LET f == DongleBytes(Packet(NOTIFY_SENSOR_ALARM,
                      AlarmPayload(clock * 1000, event, mac, type, battery, state, signal)))
          IN  /\ hid' = hid \o f
              /\ script' = Append(script, Item("alarm", f))
    /\ UNCHANGED <<codecVars, nreads, workerVars, dongleVars, trace, mainVars, gwVars,
                   read_failed, callVars>>

DongleAlarm(events, types, batteries) == DongleAlarmOf(events, types, batteries, {1}, {75})

DongleContactAlarm == DongleAlarm({EVENT_TYPE_ALARM}, {SENSOR_TYPE_SWITCH}, {60})

\* init_sensors: every configured sensor starts online, seen now
SensorsInitialised(sensors) ==
    /\ CodecIdle
    /\ DongleRunning /\ script = <<>> /\ hid = <<>>
    /\ mpc = "constructed" /\ hstep = 5 /\ cpc = "idle" /\ ccmd = NoPkt /\ cold = NoHandler
    /\ cid = 0 /\ cevt = FALSE /\ cresult = NoPkt /\ cwait = FALSE
    /\ mexc = "none" /\ cerr = "unchecked" /\ peer = NoPeer /\ io = IoIdle /\ ThreadsIdle /\ ApiIdle
    /\ hsnap = InitHandlers
    /\ gpc = "running" /\ gtries = 1
    /\ SENSORS = sensors
    /\ SENSORS_STATE = [mac \in DOMAIN sensors |-> [last_seen |-> 0, online |-> TRUE]]
    /\ clock = 0
    /\ published = <<>> /\ delivered = <<>>

AvailabilityInit == \E sensors \in [{MacA, MacB} -> SensorConfigs] : SensorsInitialised(sensors)

AvailabilityWorkerNext ==
    \/ WorkerReadReport
    \/ WorkerLookup
    \/ WorkerAck
    \/ WorkerInvokeAlarm

AvailabilityNext ==
    \/ TimePasses
    \/ GwAvailabilityCheck
    \/ GwCheckError
    \/ DongleContactAlarm
    \/ AvailabilityWorkerNext

SpecAvailability == AvailabilityInit /\ [][AvailabilityNext]_vars

(* Events: alarms and heartbeats of several sensor types and battery levels. *)

\* The battery bytes sent: low, half, full, and above the scale
RawBatteries == { 30, 60, 100, 120 }

\* The signal bytes sent: strongest, strong, usual, weak
RawSignals == { 0, 60, 75, 120 }

\* A sensor-type byte that is not in SENSOR_TYPES
UnknownSensorTypes == { 9 }

DongleSensorEvent ==
    DongleAlarmOf({EVENT_TYPE_ALARM, EVENT_TYPE_HEARTBEAT},
                  {SENSOR_TYPE_SWITCH, SENSOR_TYPE_SWITCH_V2, SENSOR_TYPE_MOTION}
                      \cup UnknownSensorTypes,
                  RawBatteries, {0, 1}, RawSignals)

EventsInit ==
    SensorsInitialised((MacA :> [timeout |-> None, sw_version |-> 23])
                        @@ (MacB :> [timeout |-> None, sw_version |-> 23, invert_state |-> TRUE]))

EventsNext ==
    \/ DongleSensorEvent
    \/ GwCheckError
    \/ AvailabilityWorkerNext

SpecEvents == EventsInit /\ [][EventsNext]_vars

(* Decode failures: an alarm frame that decodes, one that fails to decode  *)
(* or one that is too short, and a sync-time frame after it.              *)

GoodAlarm == AlarmPayload(0, EVENT_TYPE_ALARM, MacA, SENSOR_TYPE_SWITCH, 60, 1, 75)

DecodePayloads ==
    { GoodAlarm,
      AlarmPayload(0, EVENT_TYPE_ALARM, MacZero, SENSOR_TYPE_SWITCH, 60, 1, 75),
      AlarmPayload(0, EVENT_TYPE_ALARM, MacA, SENSOR_TYPE_SWITCH, 60, 2, 75),
      SubSeq(GoodAlarm, 1, 20),
      SubSeq(GoodAlarm, 1, 10) }

DongleAlarmPayload ==
    /\ script = <<>>
    /\ \E p \in DecodePayloads :
          LET f == DongleBytes(Packet(NOTIFY_SENSOR_ALARM, p))
          IN  /\ hid' = hid \o f
              /\ script' = Append(script, Item("alarm", f))
    /\ UNCHANGED <<codecVars, nreads, workerVars, dongleVars, trace, mainVars, gwVars,
                   read_failed, callVars>>

DongleSyncTimeAfter ==
    /\ Len(script) = 1
    /\ hid' = hid \o FrSyncTime
    /\ script' = Append(script, Item("frame", FrSyncTime))
    /\ UNCHANGED <<codecVars, nreads, workerVars, dongleVars, trace, mainVars, gwVars,
                   read_failed, callVars>>

DecodeNext ==
    \/ DongleAlarmPayload
    \/ DongleSyncTimeAfter
    \/ WorkerReadReport
    \/ WorkerLookup
    \/ WorkerAck
    \/ WorkerWriteError
    \/ WorkerInvokeNotify
    \/ WorkerInvokeAlarm
    \/ GwCheckError

SpecDecode == EventsInit /\ [][DecodeNext]_vars

(* The sensor registry: init_sensors and the scan, remove and reload       *)
(* messages.  The session calls made on the way (List, Scan, Delete) are   *)
(* taken by their results.                                                 *)

MaxMessages == 2     \* MQTT messages handled after the sensors were initialised

\* What sensors.yaml may hold when the gateway starts
ConfigFiles ==
    { [mac \in macs |-> [timeout |-> None, sw_version |-> None]] : macs \in SUBSET {MacA, MacZero} }

\* What WYZESENSE_DONGLE.List() may give: a list of MACs, or TimeoutError
ListTimeout == [raised |-> "TimeoutError", value |-> <<>>]
Listed(macs) == [raised |-> "none", value |-> macs]
ListResults ==
    { ListTimeout, Listed(<<>>), Listed(<< MacA >>), Listed(<< MacB >>),
      Listed(<< MacA, MacB >>), Listed(<< MacZero, MacB >>) }

\* What WYZESENSE_DONGLE.Scan() may give: None, or (mac, type, version)
ScanResults == { <<>>, << MacB, "switch", "23" >>, << MacZero, "motion", "19" >> }

Registry(sensors, state) == [sensors |-> sensors, state |-> state]

\* add_sensor_to_config: the configuration entry and the state entry of the sensor
add_sensor_to_config(reg, sensor_mac, sensor_version) ==
    Registry((sensor_mac :> [timeout |-> None, sw_version |-> sensor_version]) @@ reg.sensors,
             (sensor_mac :> [last_seen |-> clock, online |-> TRUE]) @@ reg.state)

\* delete_sensor_from_config: del SENSORS[mac], del SENSORS_STATE[mac]; a KeyError
\* of either is logged
delete_sensor_from_config(reg, sensor_mac) ==
    IF sensor_mac \notin DOMAIN reg.sensors THEN reg
    ELSE Registry([m \in DOMAIN reg.sensors \ {sensor_mac} |-> reg.sensors[m]],
                  [m \in DOMAIN reg.state \ {sensor_mac} |-> reg.state[m]])

\* init_sensors: "for sensor_mac in result"
RECURSIVE CheckLinked(_, _)
CheckLinked(reg, result) ==
    IF result = <<>> THEN reg
    ELSE LET sensor_mac == Head(result)
             next == IF ~valid_sensor_mac(sensor_mac) THEN reg
                     ELSE IF sensor_mac \notin DOMAIN reg.sensors
                     THEN add_sensor_to_config(reg, sensor_mac, None)
                     ELSE IF sensor_mac \notin DOMAIN reg.state
                     THEN Registry(reg.sensors,
                                   (sensor_mac :> [last_seen |-> clock, online |-> TRUE]) @@ reg.state)
                     ELSE reg
         IN  CheckLinked(next, Tail(result))

\* An init_sensors that leaves out the configured MACs valid_sensor_mac rejects.
init_sensors_Validated(file, state_file, result) ==
    Registry([m \in { x \in DOMAIN file : valid_sensor_mac(x) } |-> file[m]], state_file)

\* init_sensors: SENSORS from the configuration file, SENSORS_STATE from the state
\* file; the sensors the dongle lists are added, a state entry the dongle does not
\* list is dropped; with no list every configured sensor gets a state entry
init_sensors(file, state_file, result) ==
    IF result.raised = "none" /\ result.value # <<>>
    THEN LET reg == CheckLinked(Registry(file, state_file), result.value)
             linked == { result.value[i] : i \in 1..Len(result.value) }
         IN  Registry(reg.sensors, [m \in DOMAIN reg.state \cap linked |-> reg.state[m]])
    ELSE Registry(file,
                  [m \in DOMAIN file \cup DOMAIN state_file |->
                      IF m \in DOMAIN state_file THEN state_file[m]
                      ELSE [last_seen |-> clock, online |-> TRUE]])

\* A step of the gateway that touches only the registry and the history.
RegistryStepUnchanged ==
    UNCHANGED <<codecVars, envVars, workerVars, dongleVars, mainVars, gtries,
                read_failed, cerr, peer, io, threadVars, apiVars, clock, published, delivered>>

Note(what, data) == Ev("main", what, 0, data, NoHandler)

\* __main__: init_sensors(), then INITIALIZED = True
GwLoadSensors ==
    /\ gpc = "init_sensors"
    /\ mpc = "constructed"
    /\ \E file \in ConfigFiles, result \in ListResults :
          LET reg == init_sensors(file, EmptyTable, result)
          IN  /\ SENSORS' = reg.sensors
              /\ SENSORS_STATE' = reg.state
              /\ trace' = trace \o << Note("config", file), Note("list", result) >>
    /\ gpc' = "running"
    /\ RegistryStepUnchanged

\* on_message_scan
GwMessageScan ==
    /\ gpc = "running"
    /\ Len(trace) < 2 + MaxMessages
    /\ \E result \in ScanResults :
          LET reg == IF result # <<>> /\ valid_sensor_mac(result[1])
                        /\ result[1] \notin DOMAIN SENSORS
                     THEN add_sensor_to_config(Registry(SENSORS, SENSORS_STATE), result[1], result[3])
                     ELSE Registry(SENSORS, SENSORS_STATE)
          IN  /\ SENSORS' = reg.sensors
              /\ SENSORS_STATE' = reg.state
              /\ trace' = Append(trace, Note("scan", result))
    /\ UNCHANGED gpc
    /\ RegistryStepUnchanged

\* on_message_remove
GwMessageRemove ==
    /\ gpc = "running"
    /\ Len(trace) < 2 + MaxMessages
    /\ \E sensor_mac \in {MacA, MacB, MacZero} :
          LET reg == IF valid_sensor_mac(sensor_mac)
                     THEN delete_sensor_from_config(Registry(SENSORS, SENSORS_STATE), sensor_mac)
                     ELSE Registry(SENSORS, SENSORS_STATE)
          IN  /\ SENSORS' = reg.sensors
              /\ SENSORS_STATE' = reg.state
              /\ trace' = Append(trace, Note("remove", sensor_mac))
    /\ UNCHANGED gpc
    /\ RegistryStepUnchanged

\* on_message_reload: the state is saved and init_sensors runs again on the files
GwMessageReload ==
    /\ gpc = "running"
    /\ Len(trace) < 2 + MaxMessages
    /\ \E result \in ListResults :
          LET reg == init_sensors(SENSORS, SENSORS_STATE, result)
          IN  /\ SENSORS' = reg.sensors
              /\ SENSORS_STATE' = reg.state
              /\ trace' = Append(trace, Note("list", result))
    /\ UNCHANGED gpc
    /\ RegistryStepUnchanged

RegistryInit ==
    /\ CodecIdle
    /\ DongleRunning /\ script = <<>> /\ hid = <<>> /\ trace = <<>>
    /\ mpc = "constructed" /\ hstep = 5 /\ cpc = "idle" /\ ccmd = NoPkt /\ cold = NoHandler
    /\ cid = 0 /\ cevt = FALSE /\ cresult = NoPkt /\ cwait = FALSE
    /\ mexc = "none" /\ cerr = "unchecked" /\ peer = NoPeer /\ io = IoIdle /\ ThreadsIdle /\ ApiIdle
    /\ hsnap = InitHandlers
    /\ gpc = "init_sensors" /\ gtries = 1
    /\ RegIdle

RegistryNext ==
    \/ GwLoadSensors
    \/ GwMessageScan
    \/ GwMessageRemove
    \/ GwMessageReload

SpecRegistry == RegistryInit /\ [][RegistryNext]_vars

-----------------------------------------------------------------------------
(* Vocabulary of the properties.                                           *)

\* The events of the reader task, in order.
WorkerTrace == SelectSeq(trace, LAMBDA e : e.by = "worker")

\* Opcode of a frame on the wire: class byte and subcode byte.
FrameCmd(f) == (f[3] * 256) + f[5]

\* An asynchronous opcode other than ASYNC_ACK (class 0x53, subcode not 0xFF).
IsAsyncNonAck(cmd) == (cmd \div 256) = 83 /\ (cmd % 256) # 255

\* The 7 bytes of an ASYNC_ACK for subcode sub: AA 55 53 sub FF and their sum.
AckWire(sub) ==
    LET body == << 170, 85, 83, sub, 255 >>
        sum == 170 + 85 + 83 + sub + 255
    IN  body \o << sum \div 256, sum % 256 >>

\* The reader task is at the top of its loop with nothing left to read and
\* nothing in its buffer it could act on without more bytes.
Settled ==
    /\ hid = <<>>
    /\ wpc = "loop"
    /\ LET start == FindMagic(wbuf)
       IN  start = -1 \/ Parse(SliceFrom(wbuf, start)).kind = "eof"

\* The frames the dongle has sent, in order.
ScriptFrames == SelectSeq(script, LAMBDA it : it.kind = "frame")

Calls == SelectSeq(trace, LAMBDA e : e.ev = "call")

Received == SelectSeq(trace, LAMBDA e : e.ev = "rx")

\* The reader has handed the frame f to _HandlePacket.
Dispatched(f) == \E i \in 1..Len(Received) : Received[i].data = f

-----------------------------------------------------------------------------
(* C1: ACK obligation.  In the reader task's history every received packet *)
(* of class 0x53 other than ASYNC_ACK is followed immediately by the write *)
(* of the ASYNC_ACK frame carrying that packet's subcode: nothing (neither *)
(* the packet's handler nor the next received packet) comes between.       *)
C1_AckObligation ==
    \A i \in 1..Len(WorkerTrace) :
        (WorkerTrace[i].ev = "rx" /\ IsAsyncNonAck(WorkerTrace[i].cmd) /\ i < Len(WorkerTrace))
        => /\ WorkerTrace[i + 1].ev = "tx"
           /\ WorkerTrace[i + 1].data = AckWire(WorkerTrace[i].cmd % 256)

\* An alarm notification was received, acknowledged, and then its handler ran.
C1_Witness ==
    \E i \in 1..(Len(WorkerTrace) - 2) :
        /\ WorkerTrace[i].ev = "rx" /\ WorkerTrace[i].cmd = NOTIFY_SENSOR_ALARM
        /\ WorkerTrace[i + 1].ev = "tx" /\ WorkerTrace[i + 1].data = AckWire(25)
        /\ WorkerTrace[i + 2].ev = "call" /\ WorkerTrace[i + 2].cmd = NOTIFY_SENSOR_ALARM

(* C2: Ordering.  For a stream of valid frames the handler calls are, in   *)
(* order, the calls for a prefix of the frames sent; a packet is received  *)
(* only after the handler of the one before it was called; and once the    *)
(* reader, still alive, has nothing left to act on, every frame sent has   *)
(* had its handler called.                                                 *)
C2_Ordering ==
    /\ Len(Calls) <= Len(ScriptFrames)
    /\ \A i \in 1..Len(Calls) : Calls[i].cmd = FrameCmd(ScriptFrames[i].bytes)
    /\ Len(Received) <= Len(Calls) + 1
    /\ \A i \in 1..Len(Received) : Received[i].data = ScriptFrames[i].bytes
    /\ Settled => Len(Calls) = Len(ScriptFrames)

\* Two different frames were sent, the first cut across reads, and both handlers ran.
C2_Witness ==
    /\ Len(Calls) = 2
    /\ Calls[1].cmd # Calls[2].cmd
    /\ nreads >= 3

NoMagicIn(g) == \A i \in 1..(Len(g) - 1) : ~(g[i] = 85 /\ g[i + 1] = 170)

C8_SplitFrames ==
    (script[1].bytes = <<>> /\ script[3].bytes = <<>>)
    => /\ last_exception # "AssertionError:Parse"
       /\ (wpc = "loop" /\ Received = <<>>) => (wbuf \o hid = script[2].bytes)
       /\ Len(Received) <= 1
       /\ Settled => Received # <<>>

(* C4: Frame round-trip.  Parsing the bytes Send writes for a              *)
(* constructor-built packet yields a packet with the same opcode and the   *)
(* same payload, whose Length is the number of bytes written.              *)
C4_RoundTrip ==
    cstage = "parsed"
    => /\ cres.kind = "pkt"
       /\ cres.cmd = cpkt.cmd
       /\ cres.payload = cpkt.payload
       /\ PacketLength(Packet(cres.cmd, cres.payload)) = Len(cbuf)

\* The ASYNC_ACK for an alarm notification made the round trip.
C4_Witness ==
    /\ cstage = "parsed"
    /\ cres.kind = "pkt"
    /\ cpkt.cmd = ASYNC_ACK
    /\ cres.payload = NOTIFY_SENSOR_ALARM

\* The bytes written are m1 m2 | class | len | subcode | payload | sum16, and
\* for an ASYNC_ACK the 7 bytes m1 m2 | class | acked subcode | FF | sum16.
WireLayout(m1, m2) ==
    LET n == Len(cbuf)
        sum == SumBytes(SubSeq(cbuf, 1, n - 2))
    IN  /\ n >= 7
        /\ cbuf[1] = m1 /\ cbuf[2] = m2
        /\ cbuf[3] = cpkt.cmd \div 256
        /\ cbuf[n - 1] = (sum \div 256) % 256 /\ cbuf[n] = sum % 256
        /\ IF cpkt.cmd = 21503      \* 0x53FF
           THEN /\ n = 7
                /\ cbuf[4] = cpkt.payload % 256
                /\ cbuf[5] = 255
           ELSE /\ n = Len(cpkt.payload) + 7
                /\ cbuf[4] = Len(cpkt.payload) + 3
                /\ cbuf[5] = cpkt.cmd % 256
                /\ SubSeq(cbuf, 6, n - 2) = cpkt.payload

(* C5: Wire layout on egress, as claimed: every packet is written with the *)
(* leading bytes 55 AA.                                                    *)
C5_WireLayout55AA == cstage = "sent" => WireLayout(85, 170)

(* C5, amended: every non-ACK packet is written as the bytes AA 55, class, *)
(* len = len(payload)+3, subcode, payload, then the 16-bit big-endian sum  *)
(* of all preceding bytes; an ASYNC_ACK is written as a fixed 7-byte frame *)
(* AA 55, class, acknowledged subcode, FF, sum.                            *)
C5_WireLayoutAA55 == cstage = "sent" => WireLayout(170, 85)

\* The ASYNC_ACK for an alarm notification is on the wire: AA 55 53 19 FF 02 6A.
C5_Witness ==
    /\ cstage = "sent"
    /\ cpkt.cmd = ASYNC_ACK
    /\ cbuf = << 170, 85, 83, 25, 255, 2, 106 >>

(* C6: Checksum rejection.  After one payload byte of the written bytes    *)
(* was changed to a different value, Parse returns None (Invalid).         *)
C6_ChecksumRejection == cstage = "reparsed" => cres.kind = "invalid"

\* A payload byte of a DelSensor frame was changed and Parse rejected the frame.
C6_Witness ==
    /\ cstage = "reparsed"
    /\ cpkt.cmd = CMD_DEL_SENSOR
    /\ cbuf # PacketBytes(cpkt)
    /\ cres.kind = "invalid"

-----------------------------------------------------------------------------
(* Properties of the session.                                              *)

\* The step appends a write of the caller's thread to the history.
MainWrites ==
    /\ Len(trace') = Len(trace) + 1
    /\ trace'[Len(trace')].by = "main"
    /\ trace'[Len(trace')].ev = "tx"

\* A packet with the reply opcode of c was handed to a handler since the last
\* call began.
ReplyReceivedFor(c) ==
    \E i \in 1..Len(trace) : \E j \in (i + 1)..Len(trace) :
        /\ trace[i].by = "main" /\ trace[i].ev = "set" /\ trace[i].cmd = c
        /\ \A k \in (i + 1)..Len(trace) : ~(trace[k].by = "main" /\ trace[k].ev = "set")
        /\ trace[j].ev = "call" /\ trace[j].cmd = c + 1

\* C3 -- Command/reply pairing: whenever a command with opcode C is written, the
\* handler table holds a one-shot command handler at C+1; when the call has
\* returned or raised TimeoutError the entry at C+1 is what it was when the call
\* began; and a call during which no packet with opcode C+1 was handed to a
\* handler ends in TimeoutError.
C3_Pairing ==
    /\ [][MainWrites =>
            HandlerAt(handlers, trace'[Len(trace')].cmd + 1).kind = "cmd_handler"]_vars
    /\ [](cpc \in {"returned", "timeout"} =>
            /\ HandlerAt(handlers, ccmd.cmd + 1) = HandlerAt(hsnap, ccmd.cmd + 1)
            /\ (~ReplyReceivedFor(ccmd.cmd) => cpc = "timeout"))

\* A call whose reply opcode already had a handler (_OnSyncTime) has returned and
\* that handler is back in the table.
C3_Witness ==
    /\ cpc = "returned"
    /\ ccmd.cmd + 1 = NOTIFY_SYNC_TIME
    /\ HandlerAt(hsnap, NOTIFY_SYNC_TIME) = OnSyncTime
    /\ HandlerAt(handlers, NOTIFY_SYNC_TIME) = OnSyncTime

\* The opcodes of the bring-up steps: Inquiry 0x4327, GetEnr 0x4302, GetMAC 0x4304,
\* GetVersion 0x5316, FinishAuth 0x5314.
HandshakeOpcodes == << 17191, 17154, 17156, 21270, 21268 >>

\* The structural check of step k, as the specification states it.
GoodReply(k, payload) ==
    CASE k = 1 -> payload = << 1 >>
      [] k = 2 -> Len(payload) = 16
      [] k = 3 -> Len(payload) = 8 /\ \A i \in 1..8 : payload[i] <= 127
      [] k = 4 -> \A i \in 1..Len(payload) : payload[i] <= 127
      [] OTHER -> payload = <<>>

\* Index in the history of the n-th write of the caller's thread.
TxIndex(n) ==
    CHOOSE i \in 1..Len(trace) :
        /\ trace[i].by = "main" /\ trace[i].ev = "tx"
        /\ Cardinality({ j \in 1..i : trace[j].by = "main" /\ trace[j].ev = "tx" }) = n

\* Between the (n-1)-th and the n-th write the command handler was called with a
\* reply to step n-1 that passes the check of that step.
AcceptedBefore(n) ==
    \E j \in (TxIndex(n - 1) + 1)..(TxIndex(n) - 1) :
        /\ trace[j].ev = "call"
        /\ trace[j].h.kind = "cmd_handler"
        /\ trace[j].cmd = HandshakeOpcodes[n - 1] + 1
        /\ GoodReply(n - 1, trace[j].data)

C9_InOrder ==
    /\ \A n \in 1..Len(MainTx) : n <= 5 => MainTx[n].cmd = HandshakeOpcodes[n]
    /\ \A n \in 2..Len(MainTx) : n <= 6 => AcceptedBefore(n)

\* A bring-up step has failed: it timed out, or its reply fails the check.
C9_StepFailed ==
    /\ mpc = "step"
    /\ \/ cpc = "timeout"
       \/ cpc = "returned" /\ ~GoodReply(hstep, cresult.payload)

C9_TornDown ==
    /\ mpc = "raised"
    /\ mexc # "none"
    /\ exit_event
    /\ wpc = "done"
    /\ fd = "none"
    /\ Len(MainTx) = hstep

\* C9 -- Bring-up handshake: the session writes Inquiry, GetEnr, GetMAC,
\* GetVersion, FinishAuth in that order, each after the command handler accepted
\* a well-formed reply to the previous one; once a step has failed (timeout or a
\* malformed reply) nothing more is written, and the session comes to the state
\* where the reader task has ended, the descriptor is closed and released, and
\* the error has left the constructor.
C9_Handshake ==
    /\ []C9_InOrder
    /\ [](mexc # "none" => Len(MainTx) <= hstep)
    /\ (C9_StepFailed ~> C9_TornDown)

\* The third step failed on a malformed MAC reply and the session is torn down.
C9_Witness ==
    /\ C9_TornDown
    /\ hstep = 3
    /\ mexc = "UnicodeDecodeError"

\* C10 -- the gateway goes on to sensor initialisation only with a constructed
\* session.
C10_SessionBeforeSensors == gpc = "init_sensors" => mpc = "constructed"

-----------------------------------------------------------------------------
(* Properties of fault latching.                                           *)

(* C11, as claimed: any exception raised inside the reader task -- a       *)
(* failed read included -- is stored in the last-exception slot, and what  *)
(* CheckError raised is what the slot holds.                               *)
C11_LatchAny ==
    /\ (read_failed \/ wpc = "done") => last_exception # "none"
    /\ cerr \notin {"unchecked", "ok"} => cerr = last_exception

(* C11, amended: an exception that ends the reader task (a decode          *)
(* assertion, a failed ACK write, a handler exception) is stored in the    *)
(* last-exception slot, which is written once; every CheckError call made  *)
(* afterwards raises the stored exception, and while nothing is stored     *)
(* CheckError returns normally. An OSError of the HID read is not part of  *)
(* this: the read returns empty, nothing is stored, the reader goes on.    *)
C11_Latch ==
    /\ [](wpc = "done" => last_exception # "none")
    /\ [][last_exception # "none" => last_exception' = last_exception]_vars
    /\ [][cerr' # cerr =>
            cerr' = (IF last_exception = "none" THEN "ok" ELSE last_exception)]_vars
    /\ [](cerr \notin {"unchecked", "ok"} => cerr = last_exception)

\* A read failed and went unreported; later the event-log handler raised and
\* CheckError raised that exception to the caller.
C11_Witness ==
    /\ read_failed
    /\ wpc = "done"
    /\ cerr = "AssertionError:_OnEventLog"

-----------------------------------------------------------------------------
(* Properties of the gateway main loop.                                    *)

\* CheckError has raised a reader fault to the main loop.
FaultReported == cerr \notin {"unchecked", "ok"}

(* C12, as claimed: after CheckError has reported a reader fault the       *)
(* gateway keeps running and a new bring-up handshake is begun.            *)
C12_Reconnects ==
    /\ [](gpc # "exited")
    /\ (FaultReported ~> (mpc \in {"new", "start", "step"}))

(* C12, amended: a reader fault ends the gateway. Once CheckError has      *)
(* raised in the main loop nothing more is written to the dongle by the    *)
(* main thread and no session is constructed; Stop sets the exit flag and  *)
(* releases the descriptor, and the process exits.                         *)
C12_FaultStopsGateway ==
    /\ [][gpc # "running" =>
            /\ mpc' \notin {"new", "start", "step", "op"}
            /\ \A i \in (Len(trace) + 1)..Len(trace') : trace'[i].by # "main"]_vars
    /\ [](FaultReported => gpc # "running")
    /\ (FaultReported ~> (gpc = "exited" /\ exit_event /\ fd = "none"))

\* A split ASYNC_ACK faulted the reader, CheckError raised it, and the gateway
\* has stopped the session and exited.
C12_Witness ==
    /\ gpc = "exited"
    /\ cerr = "AssertionError:Parse"
    /\ fd = "none"

-----------------------------------------------------------------------------
(* Properties of the session calls.                                        *)

\* The MACs handed to the list handler, in the order the reader handed them over.
ListArrivals ==
    LET calls == SelectSeq(trace, LAMBDA e : /\ e.by = "worker" /\ e.ev = "call"
                                             /\ e.h.kind = "list_handler"
                                             /\ Len(e.data) = 8 /\ IsAscii(e.data))
    IN  [i \in 1..Len(calls) |-> calls[i].data]

\* The count the dongle answered GetSensorCount with, as the reader handed it over.
CountReplies ==
    SelectSeq(trace, LAMBDA e : /\ e.by = "worker" /\ e.ev = "call"
                                /\ e.cmd = CMD_GET_SENSOR_COUNT + 1
                                /\ e.h.kind = "cmd_handler")

ListEnded == aname = "List" /\ apc = "done"

(* C13: List writes GetSensorCount first. If it returns, a count n was     *)
(* read: for n = 0 the result is empty and GetSensorList was never         *)
(* written; for n > 0 GetSensorList(n) was written next and the result is  *)
(* the n MACs of the list frames in arrival order. If GetSensorList(n) was *)
(* written and fewer than n MACs arrived before the wait ended, List       *)
(* raises TimeoutError.                                                    *)
C13_List ==
    /\ (aname = "List" /\ Len(MainTx) >= 1) => MainTx[1].cmd = CMD_GET_SENSOR_COUNT
    /\ (aname = "List" /\ Len(MainTx) >= 2) =>
          /\ Len(MainTx) = 2
          /\ Len(CountReplies) >= 1
          /\ CountReplies[1].data[1] > 0
          /\ MainTx[2].data = PacketBytes(PktGetSensorList(CountReplies[1].data[1]))
    /\ (ListEnded /\ aret.how = "return") =>
          /\ Len(CountReplies) >= 1
          /\ LET n == CountReplies[1].data[1]
             IN  /\ n = 0 => aret.value = <<>> /\ Len(MainTx) = 1
                 /\ n > 0 => /\ Len(MainTx) = 2
                             /\ Len(aret.value) = n
                             /\ aret.value = ListArrivals
    /\ (ListEnded /\ Len(MainTx) = 2 /\ Len(actx.sensors) < actx.count) =>
          aret = [how |-> "raise", value |-> "TimeoutError"]

\* List has returned two different MACs for a count of two.
C13_Witness ==
    /\ ListEnded
    /\ aret.how = "return"
    /\ Len(aret.value) = 2
    /\ aret.value[1] # aret.value[2]

\* List has timed out with one MAC of two collected.
C13_WitnessTimeout ==
    /\ ListEnded
    /\ aret = [how |-> "raise", value |-> "TimeoutError"]
    /\ actx.count = 2
    /\ Len(actx.sensors) = 1

\* The well-formed scan-found packets handed to scan_handler, in order.
ScanCalls ==
    SelectSeq(trace, LAMBDA e : /\ e.by = "worker" /\ e.ev = "call" /\ e.h = ScanHandler
                                /\ Len(e.data) = 11 /\ IsAscii(SubSeq(e.data, 2, 9)))

\* The four commands of a successful Scan for mac, as written.
ScanWire(mac) ==
    << PacketBytes(PktEnableScan), PacketBytes(PktGetSensorR1(mac, ScanKey)),
       PacketBytes(PktDisableScan), PacketBytes(PktVerifySensor(mac)) >>

\* Between the (n-1)-th and the n-th write of the caller a reply to the (n-1)-th
\* command was handed to a command handler.
RepliedBefore(n) ==
    \E j \in (TxIndex(n - 1) + 1)..(TxIndex(n) - 1) :
        /\ trace[j].ev = "call"
        /\ trace[j].h.kind = "cmd_handler"
        /\ trace[j].cmd = MainTx[n - 1].cmd + 1

\* Scan has returned after a found-frame ended the discovery wait (GetSensorR1
\* was written).
ScanFoundAndReturned ==
    /\ aname = "Scan" /\ apc = "done" /\ aret.how = "return"
    /\ \E n \in 1..Len(MainTx) : MainTx[n].cmd = CMD_GET_SENSOR_R1

\* The wire and the result are those of one found-frame.
ScanAsClaimed ==
    \E i \in 1..Len(ScanCalls) :
        LET p == ScanCalls[i].data
            mac == SubSeq(p, 2, 9)
        IN  /\ [n \in 1..Len(MainTx) |-> MainTx[n].data] = ScanWire(mac)
            /\ \A n \in 2..4 : RepliedBefore(n)
            /\ aret.value = << mac, ScanTypeName(p[10]), Decimal(p[11]) >>

\* Without a bound on the found-frames heard during the call.
ScanHappyPath == ScanFoundAndReturned => ScanAsClaimed

(* C14: when a found-frame arrives within the timeout and Scan returns,    *)
(* the caller has written EnableScan, GetSensorR1(mac, key), DisableScan,  *)
(* VerifySensor(mac), each after the reply to the one before, and the      *)
(* result is (mac, type name, version string) of that found-frame. Stated  *)
(* for calls during which one sensor was heard.                            *)
C14_ScanOneSensor == (ScanFoundAndReturned /\ Len(Found) = 1) => ScanAsClaimed

\* Scan has returned the contact sensor after hearing it alone.
C14_WitnessOneSensor ==
    /\ ScanFoundAndReturned
    /\ Len(Found) = 1
    /\ aret.value = << MacA, "switch", "23" >>

\* Two sensors were heard: GetSensorR1 went to one, VerifySensor and the result
\* are the other's.
ScanTwoSensors ==
    /\ ScanFoundAndReturned
    /\ MainTx[2].data = PacketBytes(PktGetSensorR1(MacA, ScanKey))
    /\ MainTx[4].data = PacketBytes(PktVerifySensor(MacB))
    /\ aret.value = << MacB, "unknown:09", "5" >>

ScanEnded == aname = "Scan" /\ apc = "done"

(* C15, as claimed: on every exit path of Scan the handler table after the *)
(* call equals the handler table before the call.                          *)
C15_ScanRestoresTable == ScanEnded => handlers = hpre

\* What does hold: the scan-found entry is the previous handler on every exit
\* path, and the whole table is restored unless os.write raised in a command.
C15_ScanRestoresUnlessWriteFails ==
    ScanEnded =>
        /\ HandlerAt(handlers, NOTIFY_SENSOR_SCAN) = HandlerAt(hpre, NOTIFY_SENSOR_SCAN)
        /\ aret # [how |-> "raise", value |-> "OSError"] => handlers = hpre

\* Scan has raised the OSError of EnableScan's write and the one-shot handler of
\* that command is still in the table.
C15_WitnessLeftover ==
    /\ ScanEnded
    /\ aret = [how |-> "raise", value |-> "OSError"]
    /\ MainTx = <<>>
    /\ HandlerAt(handlers, CMD_START_STOP_SCAN + 1).kind = "cmd_handler"
    /\ HandlerAt(hpre, CMD_START_STOP_SCAN + 1) = NoHandler

DeleteEnded == aname = "Delete" /\ apc = "done"

\* The replies to DelSensor handed to the command handler, in order.
DeleteReplies ==
    SelectSeq(trace, LAMBDA e : /\ e.by = "worker" /\ e.ev = "call"
                                /\ e.cmd = CMD_DEL_SENSOR + 1 /\ e.h.kind = "cmd_handler")

\* AssertionError of a structural assert, UnicodeDecodeError of the MAC decode
ProtocolViolations == { "AssertionError", "UnicodeDecodeError" }

(* C16: Delete(mac) returns normally only if the reply it got is mac ++ FF *)
(* (9 bytes); with any other reply it raises a protocol violation; with    *)
(* DelSensor written and no reply before the wait ended it raises          *)
(* TimeoutError.                                                           *)
C16_Delete ==
    DeleteEnded =>
        /\ aret.how = "return" =>
              /\ cwait /\ Len(DeleteReplies) >= 1
              /\ cresult.payload = DeleteReplies[1].data
              /\ cresult.payload = aarg \o << 255 >>
        /\ (cwait /\ cresult.payload # aarg \o << 255 >>) =>
              aret.how = "raise" /\ aret.value \in ProtocolViolations
        /\ (Len(MainTx) = 1 /\ ~cwait) => aret = [how |-> "raise", value |-> "TimeoutError"]
        /\ (Len(MainTx) = 1 /\ DeleteReplies = <<>>) => ~cwait

\* Delete has returned normally.
C16_Witness ==
    /\ DeleteEnded
    /\ aret.how = "return"
    /\ cresult.payload = MacA \o << 255 >>

\* Delete has raised for a reply that echoes another MAC.
C16_WitnessMismatch ==
    /\ DeleteEnded
    /\ aret = [how |-> "raise", value |-> "AssertionError"]
    /\ cresult.payload = MacB \o << 255 >>

-----------------------------------------------------------------------------
(* Properties of Stop.                                                     *)

\* The step is an os.read or os.write of the reader task: a report read, a read
\* that raised, a packet written, or the exception of a write.
ReaderTouchesDescriptor ==
    \/ nreads' # nreads
    \/ read_failed' # read_failed
    \/ /\ Len(trace') > Len(trace)
       /\ trace'[Len(trace')].by = "worker" /\ trace'[Len(trace')].ev = "tx"
    \/ last_exception = "none" /\ last_exception' \in {"OSError", "TypeError"}

(* C17, as claimed: Stop closes the descriptor only when the reader task   *)
(* has exited, and the reader task never reads from or writes to the       *)
(* descriptor once it is closed.                                           *)
C17_TwoPhaseDrain ==
    /\ [][(fd = "open" /\ fd' = "closed") => wpc = "done"]_vars
    /\ [][(fd = "closed" \/ fd = "none") => ~ReaderTouchesDescriptor]_vars

\* What does hold: the exit flag is set before the descriptor is closed, and
\* the descriptor is released after it is closed.
C17_FlagBeforeClose ==
    /\ [](fd \in {"closed", "none"} => exit_event)
    /\ [][fd' = "none" => fd \in {"closed", "none"}]_vars

\* The join has timed out with the reader about to acknowledge a packet; the
\* descriptor was closed and released, and the reader's write has raised.
C17_WitnessWriteAfterClose ==
    /\ fd = "none"
    /\ exit_event
    /\ wpc = "done"
    /\ last_exception = "TypeError"

-----------------------------------------------------------------------------
(* Properties of availability and of the event record.                     *)

\* The number of times mac was published with the given status.
StatusCount(mac, payload) ==
    Cardinality({ i \in 1..Len(published) : published[i] = StatusMessage(mac, payload) })

\* The availability check flips every online, overdue sensor offline with one
\* offline notification, and no notification is published in any other way.
TickFlipsOffline ==
    \A mac \in DOMAIN SENSORS_STATE :
        /\ (GwAvailabilityCheck /\ SENSORS_STATE[mac].online
              /\ clock - SENSORS_STATE[mac].last_seen > SensorTimeout(SENSORS[mac]))
             => /\ ~SENSORS_STATE'[mac].online
                /\ StatusCount(mac, "offline")' = StatusCount(mac, "offline") + 1
        /\ (StatusCount(mac, "offline")' # StatusCount(mac, "offline"))
             => SENSORS_STATE[mac].online /\ ~SENSORS_STATE'[mac].online

\* The step hands an event of an offline sensor to the gateway's callback.
EventOfOfflineSensor(mac) ==
    /\ Len(delivered') = Len(delivered) + 1
    /\ delivered'[Len(delivered')].mac = mac
    /\ ~SENSORS_STATE[mac].online

(* C18, as claimed: an online sensor last seen more than its timeout ago   *)
(* is flipped offline by the next availability check with exactly one      *)
(* offline notification, later checks publish none while it stays offline, *)
(* and the next event of that sensor flips it online with an online        *)
(* notification.                                                           *)
C18_Availability ==
    /\ [][TickFlipsOffline]_vars
    /\ [][\A mac \in DOMAIN SENSORS_STATE :
            EventOfOfflineSensor(mac) =>
                /\ SENSORS_STATE'[mac].online
                /\ StatusCount(mac, "online")' = StatusCount(mac, "online") + 1]_vars

\* The first half alone: this holds.
C18_TickOffline == [][TickFlipsOffline]_vars

\* A sensor went offline, its next event reached the callback, and the sensor
\* is still offline with the reader task ended by AttributeError.
C18_WitnessEventLost ==
    /\ ~SENSORS_STATE[MacA].online
    /\ StatusCount(MacA, "offline") = 1
    /\ Len(delivered) = 1 /\ delivered[1].mac = MacA
    /\ last_exception = "AttributeError"
    /\ StatusCount(MacA, "online") = 0

\* The timeout, in seconds, the sensor configuration cfg selects: its own, or
\* four hours for a V2 software version, or eight hours.
SelectedTimeout(cfg) ==
    IF cfg.timeout # None THEN cfg.timeout
    ELSE IF cfg.sw_version \in V2_SW THEN 4 * 3600 ELSE 8 * 3600

\* The step is an availability check that found a sensor overdue.
CheckFlips == \E mac \in DOMAIN SENSORS_STATE :
                  SENSORS_STATE[mac].online /\ ~SENSORS_STATE'[mac].online

(* C19: the availability check measures each sensor against its explicit   *)
(* timeout if set, else 4 hours if its sw_version is a V2 version, else 8  *)
(* hours; a check flips an online sensor offline exactly when now minus    *)
(* last_seen is strictly greater than that timeout.                        *)
C19_TimeoutSelection ==
    [][CheckFlips =>
         \A mac \in DOMAIN SENSORS_STATE :
             SENSORS_STATE[mac].online =>
                 (~SENSORS_STATE'[mac].online
                    <=> clock - SENSORS_STATE[mac].last_seen > SelectedTimeout(SENSORS[mac]))]_vars

\* A V2 sensor without a timeout of its own was flipped one second after four
\* hours by a check that left a V1 sensor online.
C19_Witness ==
    /\ SENSORS[MacA] = [timeout |-> None, sw_version |-> 23]
    /\ SENSORS[MacB] = [timeout |-> None, sw_version |-> 19]
    /\ clock = 4 * 3600 + 1
    /\ ~SENSORS_STATE[MacA].online
    /\ SENSORS_STATE[MacB].online
    /\ published = << StatusMessage(MacA, "offline") >>

\* A sensor with a timeout of its own was flipped one second after it, while a
\* sensor of unknown version stayed online.
C19_WitnessExplicit ==
    /\ SENSORS[MacA] = [timeout |-> ExplicitTimeout, sw_version |-> 23]
    /\ SENSORS[MacB] = [timeout |-> None, sw_version |-> None]
    /\ clock = ExplicitTimeout + 1
    /\ ~SENSORS_STATE[MacA].online
    /\ SENSORS_STATE[MacB].online

\* The battery the claim gives for a raw reading of a sensor type.
NormalisedBattery(type_name, raw) ==
    IF type_name = "switchv2"
    THEN (IF raw * 2 < 100 THEN raw * 2 ELSE 100)
    ELSE (IF raw < 100 THEN raw ELSE 100)

\* The step hands the event of the frame in wpkt to the gateway's callback.
EventDelivered == Len(delivered') = Len(delivered) + 1

\* The sensor state messages the step publishes.
NewStateMessages ==
    { published'[i] : i \in { j \in (Len(published) + 1)..Len(published') :
                               Len(published'[j].topic) = 1 } }

\* The event object built from the frame carries the normalised battery.
EventBatteryNormalised ==
    EventDelivered =>
        delivered'[Len(delivered')].battery
            = NormalisedBattery(SENSOR_TYPES[wpkt.payload[18]], wpkt.payload[20])

(* C20, as claimed: for every alarm or status event with raw battery       *)
(* reading raw, the battery reported upward and published by the gateway   *)
(* is min(raw*2, 100) for a switchv2 sensor and min(raw, 100) for every    *)
(* other sensor type.                                                      *)
C20_BatteryNormalised ==
    [][/\ EventBatteryNormalised
       /\ EventDelivered =>
            \E m \in NewStateMessages :
                m.payload.battery
                    = NormalisedBattery(SENSOR_TYPES[wpkt.payload[18]], wpkt.payload[20])]_vars

\* The half that holds: the event object handed upward.
C20_EventBattery == [][EventBatteryNormalised]_vars

\* A V2 contact sensor reported 30: the event object says 60, nothing was
\* published and the reader task has ended.
C20_WitnessNothingPublished ==
    /\ Len(delivered) = 1
    /\ delivered[1].sensor_type = "switchv2"
    /\ delivered[1].battery = 60
    /\ published = <<>>
    /\ last_exception = "AttributeError"

\* clamp(x, lo, hi)
Clamp(x, lo, hi) == IF x < lo THEN lo ELSE IF x > hi THEN hi ELSE x

\* The event object built from the frame carries the negated signal byte.
EventSignalNegated ==
    EventDelivered =>
        /\ delivered'[Len(delivered')].signal_strength = 0 - wpkt.payload[26]
        /\ delivered'[Len(delivered')].signal_strength <= 0

(* C21, as claimed: for every alarm or status event with raw signal byte   *)
(* raw, the signal strength reported upward and the signal_dbm published   *)
(* by the gateway are -raw, and the published percentage is                *)
(* clamp(2*(dbm+115), 1, 100).                                             *)
C21_SignalNormalised ==
    [][/\ EventSignalNegated
       /\ EventDelivered =>
            \E m \in NewStateMessages :
                /\ m.payload.signal_dbm = 0 - wpkt.payload[26]
                /\ m.payload.signal_strength
                      = Clamp(2 * ((0 - wpkt.payload[26]) + 115), 1, 100)]_vars

\* The half that holds: the event object handed upward.
C21_EventSignal == [][EventSignalNegated]_vars

\* A sensor reported signal byte 120: the event object says -120, nothing was
\* published and the reader task has ended.
C21_WitnessNothingPublished ==
    /\ Len(delivered) = 1
    /\ delivered[1].signal_strength = 0 - 120
    /\ published = <<>>
    /\ last_exception = "AttributeError"

\* The step hands an alarm event, which carries a decoded state, to the callback.
AlarmDelivered == EventDelivered /\ delivered'[Len(delivered')].event = "alarm"

\* The integer state the claim gives for a decoded state of a sensor.
ClaimedState(state, mac) ==
    LET on == state \in { "active", "open", "wet" }
        invert == "invert_state" \in DOMAIN SENSORS[mac] /\ SENSORS[mac].invert_state
    IN  IF (on /\ ~invert) \/ (~on /\ invert) THEN 1 ELSE 0

(* C22, as claimed: for every alarm/status event the published integer     *)
(* state is 1 exactly when (the decoded state is one of active, open, wet) *)
(* XOR (the sensor's invert_state flag), and 0 otherwise.                  *)
C22_StateXor ==
    [][AlarmDelivered =>
         \E m \in NewStateMessages :
             m.payload.state = ClaimedState(delivered'[Len(delivered')].state,
                                            delivered'[Len(delivered')].mac)]_vars

\* The sensor configured with invert_state reported "open": nothing was
\* published and the reader task has ended.
C22_WitnessNothingPublished ==
    /\ Len(delivered) = 1
    /\ delivered[1].mac = MacB
    /\ delivered[1].event = "alarm"
    /\ delivered[1].state = "open"
    /\ InvertState(SENSORS, MacB)
    /\ published = <<>>
    /\ last_exception = "AttributeError"

\* The step is _OnSensorAlarm for a frame whose sensor-type byte is not in
\* SENSOR_TYPES.
UnknownTypeHandled ==
    /\ wpc = "invoke" /\ wpc' # "invoke"
    /\ whandler = OnSensorAlarm
    /\ Len(wpkt.payload) >= 19
    /\ wpkt.payload[18] \notin DOMAIN SENSOR_TYPES

(* C23, as claimed: an alarm/status frame whose sensor-type byte is not in *)
(* the sensor-type table is delivered to the event callback as an event of *)
(* kind unknown:<hex> carrying the raw payload, and the parser raises      *)
(* nothing in the reader task.                                             *)
C23_UnknownSensorType ==
    [][UnknownTypeHandled =>
         /\ EventDelivered
         /\ delivered'[Len(delivered')].event = "unknown:" \o Hex02(wpkt.payload[9])
         /\ delivered'[Len(delivered')].raw = SliceFrom(wpkt.payload, 18)
         /\ last_exception' # "TypeError"]_vars

\* A frame of sensor type 09 was handled: no event reached the callback and the
\* reader task has ended with the TypeError of the _UnknownParser call.
C23_WitnessTypeError ==
    /\ Len(script) = 1
    /\ delivered = <<>>
    /\ last_exception = "TypeError"
    /\ wpc = "done"

\* The 15 bytes of a SyncTimeAck: AA 55 53 0B 33, eight bytes of milliseconds,
\* big-endian, and the checksum.
IsSyncTimeAckWire(f) ==
    /\ Len(f) = 15
    /\ SubSeq(f, 1, 5) = << 170, 85, 83, 11, 51 >>
    /\ UnpackBE(SubSeq(f, 6, 13)) \in Clock
    /\ f[14] * 256 + f[15] = SumBytes(SubSeq(f, 1, 13)) % 65536

\* The reader's i-th event is the receipt of a sync-time notification.
SyncTimeReceived(i) == WorkerTrace[i].ev = "rx" /\ WorkerTrace[i].cmd = NOTIFY_SYNC_TIME

\* The three events that answer a sync-time notification received as event i.
SyncTimeAnswered(i) ==
    /\ i + 3 <= Len(WorkerTrace)
    /\ WorkerTrace[i + 1].ev = "tx" /\ WorkerTrace[i + 1].data = AckWire(50)
    /\ WorkerTrace[i + 2].ev = "call" /\ WorkerTrace[i + 2].h = OnSyncTime
    /\ WorkerTrace[i + 3].ev = "tx" /\ WorkerTrace[i + 3].cmd = 21299
    /\ IsSyncTimeAckWire(WorkerTrace[i + 3].data)

(* C24: for every NOTIFY_SYNC_TIME frame received, the reader writes the   *)
(* ASYNC_ACK for subcode 0x32 and then a SyncTimeAck (opcode 0x5333) with  *)
(* the clock's milliseconds, both before it receives the next packet: a    *)
(* reader that receives another packet, or is back at its loop with        *)
(* nothing to act on, has written both, in this order, with nothing of its *)
(* own in between.                                                         *)
C24_SyncTime ==
    \A i \in 1..Len(WorkerTrace) :
        SyncTimeReceived(i) =>
            /\ (\E j \in (i + 1)..Len(WorkerTrace) : WorkerTrace[j].ev = "rx") => SyncTimeAnswered(i)
            /\ Settled => SyncTimeAnswered(i)

\* A sync-time notification was answered with the ACK and the SyncTimeAck of
\* clock 1000 ms, and the reader then received the next packet.
C24_Witness ==
    /\ Len(WorkerTrace) >= 5
    /\ SyncTimeReceived(1) /\ SyncTimeAnswered(1)
    /\ UnpackBE(SubSeq(WorkerTrace[4].data, 6, 13)) = 1000
    /\ WorkerTrace[5].ev = "rx"

\* The registry event e names the MAC: it is configured, listed by the dongle,
\* found by a scan, or asked to be removed.
Mentions(e, mac) ==
    CASE e.ev = "config" -> mac \in DOMAIN e.data
      [] e.ev = "list" -> \E i \in 1..Len(e.data.value) : e.data.value[i] = mac
      [] e.ev = "scan" -> e.data # <<>> /\ e.data[1] = mac
      [] e.ev = "remove" -> e.data = mac
      [] OTHER -> FALSE

\* The MAC has been configured or observed and not been removed since.
ObservedNotRemoved(mac) ==
    \E i \in 1..Len(trace) :
        /\ Mentions(trace[i], mac) /\ trace[i].ev # "remove"
        /\ \A j \in (i + 1)..Len(trace) : ~(trace[j].ev = "remove" /\ Mentions(trace[j], mac))

\* The MAC passes valid_sensor_mac as the claim words it.
PassesValidation(mac) == Len(mac) = 8 /\ mac # << 48, 48, 48, 48, 48, 48, 48, 48 >>
                                      /\ mac # << 0, 0, 0, 0, 0, 0, 0, 0 >>

(* C25, as claimed: once the sensors are initialised, a registry entry     *)
(* exists for a MAC if and only if the MAC has been observed or configured,*)
(* passes valid_sensor_mac and has not been removed; there is never an     *)
(* entry for a MAC that fails valid_sensor_mac.                            *)
C25_RegistryInvariant ==
    gpc = "running" =>
        /\ \A mac \in {MacA, MacB, MacZero} :
              mac \in DOMAIN SENSORS <=> (PassesValidation(mac) /\ ObservedNotRemoved(mac))
        /\ \A mac \in DOMAIN SENSORS : PassesValidation(mac)

\* What does hold: the rule for the MACs that pass the validation, and an entry
\* of a MAC that fails it comes from the configuration file.
C25_RegistryOfValidMacs ==
    gpc = "running" =>
        /\ \A mac \in {MacA, MacB} : mac \in DOMAIN SENSORS <=> ObservedNotRemoved(mac)
        /\ \A mac \in DOMAIN SENSORS : PassesValidation(mac) \/ mac \in DOMAIN trace[1].data

\* The configuration file named 00000000: the registry has an entry for it, and
\* an availability entry as well.
C25_WitnessInvalidConfigured ==
    /\ gpc = "running"
    /\ MacZero \in DOMAIN SENSORS
    /\ MacZero \in DOMAIN SENSORS_STATE
    /\ ~valid_sensor_mac(MacZero)

(* ---------------------------------------------------------------------- *)
(* C26: the Inquiry round trip of scenario S1.                             *)

InquiryReplyS1 == DongleBytes(Packet(MAKE_CMD(TYPE_ASYNC, 40), << 1 >>))
InquiryReplySync == DongleBytes(Packet(MAKE_CMD(TYPE_SYNC, 40), << 1 >>))

DecodedAs(frame, cmd) ==
    \E i \in 1..Len(trace) :
        /\ trace[i].ev = "rx"
        /\ trace[i].data = frame
        /\ trace[i].cmd = cmd
        /\ FramePayload(trace[i].data) = << 1 >>

InquiryEnded == hstep > 1 \/ mpc \notin {"new", "start", "step"}
InquiryReturned == hstep > 1

\* C26 as claimed: once the Inquiry is written and the reply 55 AA 53 04 28 01
\* has been decoded (opcode 0x5328, payload 01), the Inquiry call returns
\* without error.
C26_InquiryS1 ==
    /\ \A i \in 1..Len(trace) :
          (trace[i].ev = "rx" /\ trace[i].data = InquiryReplyS1)
              => trace[i].cmd = 21288 /\ FramePayload(trace[i].data) = << 1 >>
    /\ (DecodedAs(InquiryReplyS1, 21288) /\ InquiryEnded) => InquiryReturned

\* C26: the Inquiry round trip as the code makes it: the Inquiry is the
\* command 0x4327, so the call returns only on a reply decoded as 0x4328; a
\* reply 55 AA 43 04 28 01 is decoded as opcode 0x4328 with payload 01 and,
\* handed to the waiting call, lets Inquiry return without error; the frame of
\* class 0x53 is decoded as 0x5328 with payload 01 and never reaches the call.
C26_InquiryRoundTrip ==
    /\ [][(mpc = "step" /\ hstep = 1 /\ cpc = "returned" /\ cpc' = "idle")
            => /\ cresult.cmd = 17192
               /\ cresult.payload = << 1 >>
                    => (hstep' = 2 /\ mpc' = "step" /\ mexc' = mexc)]_vars
    /\ [](\A i \in 1..Len(trace) :
            /\ (trace[i].ev = "rx" /\ trace[i].data = InquiryReplySync)
                  => trace[i].cmd = 17192 /\ FramePayload(trace[i].data) = << 1 >>
            /\ (trace[i].ev = "rx" /\ trace[i].data = InquiryReplyS1)
                  => trace[i].cmd = 21288 /\ FramePayload(trace[i].data) = << 1 >>
            /\ (trace[i].ev = "call" /\ trace[i].cmd = 21288)
                  => trace[i].h.kind # "cmd_handler")
    /\ []((DecodedAs(InquiryReplyS1, 21288) /\ InquiryEnded) => ~InquiryReturned)

C26_Witness == DecodedAs(InquiryReplySync, 17192) /\ InquiryReturned /\ hstep = 2

C26_WitnessS1TimesOut ==
    /\ DecodedAs(InquiryReplyS1, 21288)
    /\ hstep = 1
    /\ mexc = "TimeoutError"

(* ---------------------------------------------------------------------- *)
(* C27: one issuance of a command opcode in flight at a time.              *)

CallInFlight == cpc \in {"send", "wait", "restore"}
PeerInFlight == peer.pc \in {"send", "wait", "restore"}

\* C27 as claimed: while a command call for an opcode is between the install of
\* its handler and its completion or timeout, no call of another thread for the
\* same opcode has installed its handler or written its packet.
C27_CommandSerialised ==
    ~(CallInFlight /\ PeerInFlight /\ ccmd.cmd = peer.pkt.cmd)

\* Both Delete calls have ended and a one-shot handler is still in the table.
C27_WitnessHandlerLeft ==
    /\ cid = 1 /\ cpc = "idle"
    /\ peer.pc \in {"returned", "timeout"}
    /\ HandlerAt(handlers, CMD_DEL_SENSOR + 1).kind = "cmd_handler"

\* The second thread's Delete returned with the reply to the first thread's.
C27_WitnessWrongReply ==
    /\ peer.pc = "returned"
    /\ peer.pkt = PktDelSensor(MacB)
    /\ SubSeq(peer.result.payload, 1, 8) = MacA

(* ---------------------------------------------------------------------- *)
(* C28: writes to the descriptor are serialised by the handler-table lock. *)

\* C28 as claimed: at most one thread is inside a write to the descriptor, and
\* the caller of a command is inside its write only while it holds
\* Dongle.__lock.
C28_WritesSerialised ==
    /\ Cardinality(io.writers) <= 1
    /\ "main" \in io.writers => io.lock = "main"

\* The lock does what the code uses it for: one thread at a time is inside a
\* with self.__lock block, and no thread writes while one is inside.
C28_LockCoversTableOnly ==
    /\ io.lock \in {"none", "main"}
    /\ io.lock = "main" <=> cpc = "set"
    /\ io.lock = "main" => "main" \notin io.writers

\* The command write and the reader's ASYNC_ACK write are in progress together.
C28_WitnessOverlap ==
    /\ io.writers = {"main", "worker"}
    /\ io.lock = "none"
    /\ cpc = "writing" /\ wpc = "acking"

(* ---------------------------------------------------------------------- *)
(* C29: the notification handlers of construction stay in the table.       *)

PersistentOpcodes ==
    {NOTIFY_SENSOR_ALARM, NOTIFY_SENSOR_ALARM2, NOTIFY_EVENT_LOG, NOTIFY_SYNC_TIME}

\* The packets the session operations hand to _DoCommand.
SessionCommands ==
    { HandshakeCmd(k) : k \in 1..5 }
    \cup { PktGetSensorCount, PktGetSensorList(1), PktEnableScan, PktDisableScan,
           PktGetSensorR1(MacA, ScanKey), PktVerifySensor(MacA), PktDelSensor(MacA),
           PktPlayChime(MacA, 1, 1, 5) }

NotifyHandlersKept(table) ==
    \A c \in PersistentOpcodes : HandlerAt(table, c) = InitHandlers[c]

\* C29: during and after List, Scan and Delete calls on a constructed session,
\* completed or timed out, the handler table maps the sensor-alarm,
\* alarm-variant-2, event-log and sync-time opcodes to the handlers of
\* construction; and the install and the restore _DoCommand makes for any
\* command of the session (the handshake's and PlayChime's included) leave
\* those four entries as they are.
C29_PersistentHandlers ==
    /\ NotifyHandlersKept(handlers)
    /\ \A pkt \in SessionCommands :
          /\ pkt.cmd + 1 \notin PersistentOpcodes
          /\ \A h \in {NoHandler, SimpleHandler(cid + 1), HandlerAt(handlers, pkt.cmd + 1)} :
                /\ NotifyHandlersKept(SetHandler(handlers, pkt.cmd + 1, h))
                /\ NotifyHandlersKept(RestoreEntry(handlers, pkt.cmd, h))

\* A Scan has timed out, with its handlers installed and taken out again.
C29_Witness ==
    /\ aname = "Scan"
    /\ apc = "done"
    /\ aret = [how |-> "raise", value |-> "TimeoutError"]
    /\ \E i \in 1..Len(trace) : trace[i].ev = "set" /\ trace[i].cmd = CMD_START_STOP_SCAN
    /\ NotifyHandlersKept(handlers)

(* ---------------------------------------------------------------------- *)
(* C30: a failure to decode or deliver an event and the reader task.       *)

DecodeFailures == {"IndexError", "struct.error", "AttributeError"}

SyncTimeFrameSent == Len(script) = 2

SyncTimeFrameHandled ==
    \E i \in 1..Len(trace) : trace[i].ev = "rx" /\ trace[i].cmd = NOTIFY_SYNC_TIME

\* C30 as claimed: a failure to decode or deliver an event (state byte outside
\* the (off, on) pair, payload too short for the layout, exception of the
\* callback) leaves the reader task running.
C30_ReaderSurvivesDecodeFailure ==
    last_exception \in DecodeFailures => wpc # "done"

\* What the code does: an alarm payload shorter than 19 bytes is dropped with a
\* warning and the reader goes on; any exception of the decoding or of the
\* callback is latched and ends the reader task, which handles no frame after.
C30_DecodeFailureEndsReader ==
    /\ [][last_exception' # last_exception =>
            (last_exception' \in DecodeFailures \cup {"OSError"} /\ wpc' = "done")]_vars
    /\ [][wpc = "done" => (wpc' = "done" /\ trace' = trace)]_vars
    /\ []((\E i \in 1..Len(trace) :
             /\ trace[i].ev = "call" /\ trace[i].h = OnSensorAlarm
             /\ i > 2 /\ Len(FramePayload(trace[i - 2].data)) < 19
             /\ last_exception = "none")
          => wpc # "done")

\* The state byte was 2: the reader has ended with IndexError and the sync-time
\* frame the dongle sent afterwards stays unread and unacknowledged.
C30_WitnessFrameNeverHandled ==
    /\ wpc = "done"
    /\ last_exception = "IndexError"
    /\ SyncTimeFrameSent
    /\ ~SyncTimeFrameHandled
    /\ hid # <<>>

(* ---------------------------------------------------------------------- *)
(* C31: handlers and the reader task.                                      *)

ReaderIssuedCommand ==
    \E i \in 1..Len(trace) : trace[i].by = "worker" /\ trace[i].ev = "set"

EventHandlingRaised == wpc = "done" /\ last_exception = "AttributeError"

\* C31 as claimed: the handling of any decoded event on the reader task, one
\* whose MAC fails valid_sensor_mac included, returns, and the reader task has
\* issued no command whose reply it would have to deliver to itself.
C31_HandlersReturn ==
    /\ ~ReaderIssuedCommand
    /\ delivered # <<>> => ~EventHandlingRaised

\* The part that holds: the reader task never installs a command handler.
C31_ReaderIssuesNoCommand == ~ReaderIssuedCommand

\* An event with the MAC 00000000 was handed to on_event, which raised.
C31_WitnessInvalidMacRaises ==
    /\ delivered # <<>>
    /\ delivered[1].mac = MacZero
    /\ EventHandlingRaised

(* ---------------------------------------------------------------------- *)
(* C33: the one-shot handler of a call that has ended.                     *)

\* The reader task calls the lambda of a _DoCommand call.
InvokesOneShot == wpc = "invoke" /\ whandler.kind = "cmd_handler" /\ wpc' = "loop"

\* The call that installed the handler the reader holds is still in _DoCommand,
\* its handler installed and not yet restored.
HeldHandlerInFlight == whandler.id = cid /\ cpc \in {"send", "wait", "restore"}

\* C33 as claimed: the reader task calls a one-shot handler only while the
\* command call that installed it has not yet returned or raised.
C33_NoStaleOneShot == [][InvokesOneShot => HeldHandlerInFlight]_vars

\* What holds: a handler called after its call has ended was looked up while
\* it was still in the table, and its call does not see the event it sets.
C33_StaleCallIsUnseen ==
    [][(InvokesOneShot /\ ~HeldHandlerInFlight) => (cwait' = cwait /\ cpc' = cpc)]_vars

\* The call has raised TimeoutError and the reader, which had looked its handler
\* up before the restore, has called it since: the event is set, nobody waits.
C33_WitnessStaleCall ==
    /\ cid = 1
    /\ cpc = "timeout"
    /\ cevt /\ ~cwait
    /\ HandlerAt(handlers, ccmd.cmd + 1) = cold
    /\ \E i \in 1..Len(trace) : trace[i].ev = "call" /\ trace[i].h = SimpleHandler(1)

(* ---------------------------------------------------------------------- *)
(* C34: the size of the list List() returns.                               *)

ListReturned == ListEnded /\ aret.how = "return"

\* C34 as claimed: when List() has returned after GetSensorCount reported n,
\* the list it returned (the list object of the context, ctx.sensors) holds
\* exactly n MACs, whatever list frames the dongle sent.
C34_ListSize ==
    ListReturned =>
        /\ Len(aret.value) = actx.count
        /\ Len(actx.sensors) = actx.count

\* What holds: List() returns only once n list frames have been taken, so the
\* list holds at least n MACs, the first n in arrival order.
C34_ListAtLeastCount ==
    ListReturned =>
        /\ Len(aret.value) >= actx.count
        /\ \A i \in 1..actx.count : aret.value[i] = ListArrivals[i]

\* List() has returned three MACs for a count of two: the frame beyond the count
\* was taken between e.set() and the restore of the table entry.
C34_WitnessExtraMac ==
    /\ ListReturned
    /\ actx.count = 2
    /\ Len(aret.value) = 3

\* List() returned n MACs and the handler, held by the reader since before the
\* restore, has appended one more to the same list afterwards.
C34_WitnessGrowsAfterReturn ==
    /\ ListReturned
    /\ Len(aret.value) = actx.count
    /\ Len(actx.sensors) = actx.count + 1

(* ---------------------------------------------------------------------- *)
(* C35: Scan and the pairing window.                                       *)

Wrote(pkt) == \E n \in 1..Len(MainTx) : MainTx[n].data = PacketBytes(pkt)

\* C35 as claimed: a Scan call that has written EnableScan and has returned or
\* raised has written DisableScan.
C35_ScanClosesWindow == (ScanEnded /\ Wrote(PktEnableScan)) => Wrote(PktDisableScan)

\* What holds: DisableScan is written when Scan returns, and when it raises
\* after the discovery wait timed out or after GetSensorR1 was answered.
C35_ScanClosesWindowOnReturn ==
    (ScanEnded /\ Wrote(PktEnableScan) /\ aret.how = "return") => Wrote(PktDisableScan)

\* GetSensorR1 has timed out: Scan raised TimeoutError and the last thing it
\* wrote is GetSensorR1, the pairing window left open.
C35_WitnessWindowLeftOpen ==
    /\ ScanEnded
    /\ aret = [how |-> "raise", value |-> "TimeoutError"]
    /\ Len(MainTx) = 2
    /\ MainTx[1].data = PacketBytes(PktEnableScan)
    /\ MainTx[2].cmd = CMD_GET_SENSOR_R1
    /\ ~Wrote(PktDisableScan)

(* ---------------------------------------------------------------------- *)
(* C36: the sensor Scan pairs.                                             *)

\* The MAC in the n-th packet the caller wrote (GetSensorR1, VerifySensor).
WrittenMac(n) == SubSeq(MainTx[n].data, 6, 13)

\* The m-th write is GetSensorR1 and its reply was handed to the command
\* handler before the n-th write.
R1AnsweredBefore(m, n) ==
    /\ MainTx[m].cmd = CMD_GET_SENSOR_R1
    /\ \E j \in (TxIndex(m) + 1)..(TxIndex(n) - 1) :
          /\ trace[j].ev = "call"
          /\ trace[j].h.kind = "cmd_handler"
          /\ trace[j].cmd = CMD_GET_SENSOR_R1 + 1

\* C36 as claimed: within a Scan call VerifySensor is written only after a
\* reply to GetSensorR1 was received, for the MAC GetSensorR1 was written with,
\* and the triple Scan returns carries that MAC.
C36_ScanPairsOneSensor ==
    aname = "Scan" =>
        /\ \A n \in 1..Len(MainTx) :
              MainTx[n].cmd = CMD_VERIFY_SENSOR =>
                  \E m \in 1..(n - 1) : R1AnsweredBefore(m, n) /\ WrittenMac(m) = WrittenMac(n)
        /\ (ScanEnded /\ aret.how = "return" /\ aret.value # <<>>) =>
              \E m \in 1..Len(MainTx) :
                  MainTx[m].cmd = CMD_GET_SENSOR_R1 /\ WrittenMac(m) = aret.value[1]

\* What holds: GetSensorR1 is written with the MAC of a found-frame handed to
\* scan_handler, and VerifySensor and the result carry the MAC of the found-frame
\* handled last before the scan handler was removed.
C36_ScanUsesFoundMacs ==
    aname = "Scan" =>
        \A n \in 1..Len(MainTx) :
            MainTx[n].cmd \in {CMD_GET_SENSOR_R1, CMD_VERIFY_SENSOR} =>
                \E i \in 1..Len(ScanCalls) : SubSeq(ScanCalls[i].data, 2, 9) = WrittenMac(n)

\* The discovery wait timed out, a found-frame came before the scan handler was
\* removed: VerifySensor was written and no GetSensorR1.
C36_WitnessVerifyWithoutR1 ==
    /\ ScanEnded
    /\ \E n \in 1..Len(MainTx) : MainTx[n].cmd = CMD_VERIFY_SENSOR
    /\ \A n \in 1..Len(MainTx) : MainTx[n].cmd # CMD_GET_SENSOR_R1

\* Two sensors were heard: GetSensorR1 was written for one, VerifySensor for the other.
C36_WitnessTwoMacs ==
    /\ ScanEnded
    /\ Len(MainTx) = 4
    /\ MainTx[2].cmd = CMD_GET_SENSOR_R1
    /\ MainTx[4].cmd = CMD_VERIFY_SENSOR
    /\ WrittenMac(2) # WrittenMac(4)

(* Gateway threads: the availability check of the main loop, the MQTT callback
   thread handling remove and reload messages, and the reader task handling a
   sensor's alarm, each a statement at a time. *)

ThreadsUnchangedButTrace ==
    UNCHANGED <<codecVars, envVars, workerVars, dongleVars, mainVars, gtries,
                read_failed, cerr, peer, io, apiVars, clock, delivered>>

ThreadsUnchanged == ThreadsUnchangedButTrace /\ UNCHANGED trace

\* The keys of a dict, in the order its iterator yields them
Keys(table) == SelectSeq(SensorOrder, LAMBDA m : m \in DOMAIN table)

Without(table, mac) == [m \in DOMAIN table \ {mac} |-> table[m]]

\* __main__: after the CheckError of this iteration has passed,
\* now = time.time(); for mac in SENSORS_STATE:
TickBegin ==
    /\ gpc = "running"
    /\ tick.pc = "idle"
    /\ cerr = "ok"
    /\ cerr' = "unchecked"
    /\ tick' = [pc |-> "iter", now |-> clock, todo |-> Keys(SENSORS_STATE),
                size |-> Cardinality(DOMAIN SENSORS_STATE), bound |-> TRUE, exc |-> "none"]
    /\ UNCHANGED <<codecVars, envVars, workerVars, dongleVars, trace, mainVars, gwVars,
                   read_failed, peer, io, mqtt, files, apiVars, regVars>>

\* The exception leaves the main loop: "An error occurred", then Stop()
TickRaise(exc) ==
    /\ tick' = [tick EXCEPT !.pc = "raised", !.exc = exc]
    /\ gpc' = "failed"
    /\ UNCHANGED <<SENSORS_STATE, published>>

\* The next key of the iterator, and the body of the loop up to the comparison
\* with the timeout; the iterator raises when the dict it iterates changed size
TickCheck ==
    /\ tick.pc = "iter"
    /\ IF tick.bound /\ Cardinality(DOMAIN SENSORS_STATE) # tick.size
       THEN TickRaise("RuntimeError")
       ELSE IF tick.todo = <<>>
       THEN /\ tick' = [TickIdle EXCEPT !.now = tick.now]
            /\ UNCHANGED <<SENSORS_STATE, published, gpc>>
       ELSE LET mac == Head(tick.todo)
            IN  IF mac \notin DOMAIN SENSORS_STATE
                THEN TickRaise("KeyError")
                ELSE IF ~SENSORS_STATE[mac].online
                THEN /\ tick' = [tick EXCEPT !.todo = Tail(tick.todo)]
                     /\ UNCHANGED <<SENSORS_STATE, published, gpc>>
                ELSE IF mac \notin DOMAIN SENSORS
                THEN TickRaise("KeyError")
                ELSE IF Overdue(tick.now, SENSORS_STATE[mac].last_seen, SensorTimeout(SENSORS[mac]))
                THEN /\ tick' = [tick EXCEPT !.pc = "mark"]
                     /\ UNCHANGED <<SENSORS_STATE, published, gpc>>
                ELSE /\ tick' = [tick EXCEPT !.todo = Tail(tick.todo)]
                     /\ UNCHANGED <<SENSORS_STATE, published, gpc>>
    /\ UNCHANGED <<mqtt, files, SENSORS>>
    /\ ThreadsUnchanged

\* mqtt_publish(".../{mac}/status", "offline"); SENSORS_STATE[mac]['online'] = False
TickMark ==
    /\ tick.pc = "mark"
    /\ LET mac == Head(tick.todo)
       IN  /\ published' = Append(published, StatusMessage(mac, "offline"))
           /\ IF mac \notin DOMAIN SENSORS_STATE
              THEN /\ tick' = [tick EXCEPT !.pc = "raised", !.exc = "KeyError"]
                   /\ gpc' = "failed"
                   /\ UNCHANGED SENSORS_STATE
              ELSE /\ SENSORS_STATE' = [SENSORS_STATE EXCEPT ![mac].online = FALSE]
                   /\ tick' = [tick EXCEPT !.pc = "iter", !.todo = Tail(tick.todo)]
                   /\ UNCHANGED gpc
    /\ UNCHANGED <<mqtt, files, SENSORS>>
    /\ ThreadsUnchanged

\* on_message_remove for a valid MAC, up to "del SENSORS[sensor_mac]" in
\* delete_sensor_from_config; the KeyError of a MAC not configured is logged
MqttRemoveBegin ==
    /\ gpc = "running"
    /\ mqtt.pc = "idle"
    /\ mqtt.n < MaxMessages
    /\ \E sensor_mac \in {MacA, MacB, MacZero} :
          IF valid_sensor_mac(sensor_mac) /\ sensor_mac \in DOMAIN SENSORS
          THEN /\ SENSORS' = Without(SENSORS, sensor_mac)
               /\ mqtt' = [pc |-> "removing", mac |-> sensor_mac, n |-> mqtt.n + 1]
          ELSE /\ mqtt' = [mqtt EXCEPT !.n = mqtt.n + 1]
               /\ UNCHANGED SENSORS
    /\ UNCHANGED <<tick, files, SENSORS_STATE, published, gpc>>
    /\ ThreadsUnchanged

\* delete_sensor_from_config: write_yaml_file(sensors.yaml, SENSORS)
MqttRemoveWrite ==
    /\ mqtt.pc = "removing"
    /\ files' = [files EXCEPT !.sensors = SENSORS]
    /\ mqtt' = [mqtt EXCEPT !.pc = "written"]
    /\ UNCHANGED <<tick, SENSORS, SENSORS_STATE, published, gpc>>
    /\ ThreadsUnchanged

\* delete_sensor_from_config: del SENSORS_STATE[sensor_mac]
MqttRemoveEnd ==
    /\ mqtt.pc = "written"
    /\ SENSORS_STATE' = Without(SENSORS_STATE, mqtt.mac)
    /\ mqtt' = [mqtt EXCEPT !.pc = "idle"]
    /\ UNCHANGED <<tick, files, SENSORS, published, gpc>>
    /\ ThreadsUnchanged

\* on_message_reload: the state file is written; init_sensors: SENSORS = {}
MqttReloadBegin ==
    /\ gpc = "running"
    /\ mqtt.pc = "idle"
    /\ mqtt.n < MaxMessages
    /\ files' = [files EXCEPT !.state = SENSORS_STATE]
    /\ SENSORS' = EmptyTable
    /\ mqtt' = [pc |-> "cleared", mac |-> <<>>, n |-> mqtt.n + 1]
    /\ trace' = Append(trace, Ev("mqtt", "reload", 0, <<>>, NoHandler))
    /\ UNCHANGED <<tick, SENSORS_STATE, published, gpc>>
    /\ ThreadsUnchangedButTrace

\* init_sensors: SENSORS = read_yaml_file(sensors.yaml), then "Add invert_state
\* value if missing"
MqttReloadRead ==
    /\ mqtt.pc = "cleared"
    /\ SENSORS' = [m \in DOMAIN files.sensors |->
                      IF "invert_state" \in DOMAIN files.sensors[m] THEN files.sensors[m]
                      ELSE files.sensors[m] @@ [invert_state |-> FALSE]]
    /\ mqtt' = [mqtt EXCEPT !.pc = "read"]
    /\ UNCHANGED <<tick, files, SENSORS_STATE, published, gpc>>
    /\ ThreadsUnchanged

\* init_sensors: SENSORS_STATE = read_yaml_file(state.yaml), a new dict; then the
\* dongle's list is checked against it, and a sensor added is written to sensors.yaml
MqttReloadEnd ==
    /\ mqtt.pc = "read"
    /\ \E result \in ListResults :
          LET reg == init_sensors(SENSORS, files.state, result)
          IN  /\ SENSORS' = reg.sensors
              /\ SENSORS_STATE' = reg.state
              /\ files' = IF reg.sensors # SENSORS
                          THEN [files EXCEPT !.sensors = reg.sensors] ELSE files
    /\ tick' = IF tick.pc \in {"iter", "mark"} THEN [tick EXCEPT !.bound = FALSE] ELSE tick
    /\ mqtt' = [mqtt EXCEPT !.pc = "idle"]
    /\ trace' = Append(trace, Ev("mqtt", "reloaded", 0, <<>>, NoHandler))
    /\ UNCHANGED <<published, gpc>>
    /\ ThreadsUnchangedButTrace

\* The instants looked at: just before and just after the timeout of the first sensor
TickTimes == { ExplicitTimeout - 1, ExplicitTimeout + 1 }

ClockAdvance ==
    /\ \E t \in TickTimes : t > clock /\ clock' = t
    /\ UNCHANGED <<codecVars, envVars, workerVars, dongleVars, trace, mainVars, gwVars,
                   read_failed, cerr, peer, io, threadVars, apiVars, SENSORS, SENSORS_STATE,
                   published, delivered>>

\* The gateway running with two sensors, both in sensors.yaml and both seen now
ThreadsInit ==
    /\ CodecIdle
    /\ DongleRunning /\ script = <<>> /\ hid = <<>>
    /\ mpc = "constructed" /\ hstep = 5 /\ cpc = "idle" /\ ccmd = NoPkt /\ cold = NoHandler
    /\ cid = 0 /\ cevt = FALSE /\ cresult = NoPkt /\ cwait = FALSE
    /\ mexc = "none" /\ cerr = "unchecked" /\ peer = NoPeer /\ io = IoIdle /\ ApiIdle
    /\ hsnap = InitHandlers
    /\ gpc = "running" /\ gtries = 1
    /\ SENSORS = (MacA :> [timeout |-> ExplicitTimeout, sw_version |-> 23])
                 @@ (MacB :> [timeout |-> None, sw_version |-> 23])
    /\ SENSORS_STATE = [mac \in {MacA, MacB} |-> [last_seen |-> 0, online |-> TRUE]]
    /\ files = [sensors |-> SENSORS, state |-> EmptyTable]
    /\ mqtt = MqttIdle /\ tick = TickIdle
    /\ clock = 0
    /\ published = <<>> /\ delivered = <<>>

ThreadsNext ==
    \/ ClockAdvance
    \/ TickBegin
    \/ TickCheck
    \/ TickMark
    \/ MqttRemoveBegin
    \/ MqttRemoveWrite
    \/ MqttRemoveEnd
    \/ MqttReloadBegin
    \/ MqttReloadRead
    \/ MqttReloadEnd
    \/ GwCheckError

SpecThreads == ThreadsInit /\ [][ThreadsNext]_vars

\* The availability check against the reader task handling a sensor's alarm
RaceNext ==
    \/ ClockAdvance
    \/ TickBegin
    \/ TickCheck
    \/ TickMark
    \/ DongleContactAlarm
    \/ GwCheckError
    \/ AvailabilityWorkerNext

SpecRace == ThreadsInit /\ [][RaceNext]_vars

\* A reload message against the reader task handling a sensor's alarm
ReloadNext ==
    \/ MqttReloadBegin
    \/ MqttReloadRead
    \/ MqttReloadEnd
    \/ DongleContactAlarm
    \/ GwCheckError
    \/ AvailabilityWorkerNext

SpecReload == ThreadsInit /\ [][ReloadNext]_vars

\* C37: once the sensors are initialised, every MAC with an availability-state
\* entry has a configuration entry, and the availability check's lookup of
\* SENSORS[mac] never raises KeyError.
C37_StateHasConfig ==
    /\ DOMAIN SENSORS_STATE \subseteq DOMAIN SENSORS
    /\ tick.exc # "KeyError"

\* What holds: the two tables agree whenever the MQTT callback thread is between
\* two messages, whatever the dongle's list gave.
C37_StateHasConfigBetweenMessages ==
    mqtt.pc = "idle" => DOMAIN SENSORS_STATE \subseteq DOMAIN SENSORS

\* The availability check has raised KeyError on a sensor that is online in
\* SENSORS_STATE and missing from SENSORS, while a remove or reload is under way.
C37_WitnessLookupFails ==
    /\ tick.pc = "raised" /\ tick.exc = "KeyError"
    /\ mqtt.pc \in {"removing", "written", "cleared"}
    /\ Head(tick.todo) \in DOMAIN SENSORS_STATE \ DOMAIN SENSORS
    /\ SENSORS_STATE[Head(tick.todo)].online

\* The same during a reload: SENSORS is empty between "SENSORS = {}" and the read
\* of sensors.yaml.
C37_WitnessReloadWindow ==
    /\ mqtt.pc = "cleared" /\ SENSORS = EmptyTable /\ SENSORS_STATE # EmptyTable
    /\ tick.pc = "raised" /\ tick.exc = "KeyError"

C32_DisturbedOnlyByMessages ==
    (mqtt.n = 0) => (tick.exc = "none" /\ gpc = "running")

\* The iterator of the check has raised "dictionary changed size during
\* iteration": on_message_remove deleted the state entry on the MQTT callback
\* thread after the check had begun.
C32_WitnessRemovedUnderIterator ==
    /\ tick.pc = "raised" /\ tick.exc = "RuntimeError"
    /\ mqtt.mac \in {MacA, MacB} /\ mqtt.mac \notin DOMAIN SENSORS_STATE
    /\ tick.size = 2

\* The time mac was last heard from up to instant t: the latest timestamp of the
\* events of mac handed to the event callback, or the time it was initialised.
RECURSIVE LastHeard(_, _, _)
LastHeard(events, mac, t) ==
    IF events = <<>> THEN 0
    ELSE LET e == events[Len(events)]
         IN  IF e.mac = mac /\ e.timestamp <= t THEN e.timestamp
             ELSE LastHeard(SubSeq(events, 1, Len(events) - 1), mac, t)

\* The statuses published for mac, in order
StatusesOf(mac) ==
    SelectSeq(published, LAMBDA m : m.topic = << mac, "status" >>)

\* The last status published for mac, if any, agrees with its online flag.
StatusAgrees(mac) ==
    StatusesOf(mac) # <<>> =>
        (StatusesOf(mac)[Len(StatusesOf(mac))].payload = "online") = SENSORS_STATE[mac].online

\* The availability check and the reader task are both between two pieces of work.
BothFinished == tick.pc = "idle" /\ wpc \in {"loop", "done"}

\* C38: once the availability check and the handling of an event of the same
\* sensor have both finished, the sensor is offline only if the check's now lies
\* more than the timeout after the sensor was last heard from, and the last
\* status published for the sensor agrees with its online flag.
C38_NoLostEvent ==
    BothFinished =>
        \A mac \in DOMAIN SENSORS_STATE :
            /\ ~SENSORS_STATE[mac].online
                  => tick.now - LastHeard(delivered, mac, tick.now) > SensorTimeout(SENSORS[mac])
            /\ StatusAgrees(mac)

\* What holds: the same with the last_seen field the registry holds, which no
\* event advances.
C38_OfflineByStoredLastSeen ==
    BothFinished =>
        \A mac \in DOMAIN SENSORS_STATE :
            /\ ~SENSORS_STATE[mac].online
                  => tick.now - SENSORS_STATE[mac].last_seen > SensorTimeout(SENSORS[mac])
            /\ StatusAgrees(mac)

\* The sensor's alarm was handed to the event callback one second before its
\* timeout ran out, the check two seconds later has published it offline, and
\* the reader task has ended with AttributeError.
C38_WitnessHeardThenOffline ==
    /\ BothFinished
    /\ Len(delivered) = 1 /\ delivered[1].mac = MacA
    /\ delivered[1].timestamp = ExplicitTimeout - 1
    /\ tick.now = ExplicitTimeout + 1
    /\ ~SENSORS_STATE[MacA].online /\ SENSORS_STATE[MacA].last_seen = 0
    /\ StatusCount(MacA, "offline") = 1 /\ StatusCount(MacA, "online") = 0
    /\ last_exception = "AttributeError"

\* The step leaves every sensor of sensors.yaml in the file.
DocumentKept == DOMAIN files.sensors \subseteq DOMAIN files'.sensors

\* The positions in the history of the reload messages begun, of the reloads
\* finished, and of the calls of the alarm handler
TracePositions(by, ev) == { i \in 1..Len(trace) : trace[i].by = by /\ trace[i].ev = ev }

CallerNext ==
    \/ CallInstall
    \/ CallWriteBegin
    \/ CallWriteEnd
    \/ DoCommandSendError
    \/ DoCommandWait
    \/ CallRestore
    \/ OpEnd

SpecTerminate == SessionInit /\ [][WritesNext]_vars /\ WF_vars(CallerNext)

\* A call of _DoCommand is under way.
CommandUnderWay == cpc \in {"set", "send", "writing", "wait", "restore"}

\* Dongle.__lock is held by the caller only inside _SetHandler: not while it
\* writes, waits or restores, and no thread holds it otherwise.
LockOnlyForTable ==
    /\ io.lock \in {"none", "main"}
    /\ io.lock = "main" => (cpc = "set" /\ "main" \notin io.writers)
    /\ cpc \in {"send", "writing", "wait"} => io.lock = "none"

C40_WitnessWriteFails ==
    /\ cpc = "oserror"
    /\ io = IoIdle

====
